---- MODULE Spec2Model ----
(***************************************************************************)
(* A model of the acquisition-and-ranking engine of rpunia07/stockIndex:   *)
(* DataFetcher (src/app/data_fetcher.py) with its two file-backed caches,  *)
(* the provider fallback chains of get_market_cap and get_daily_data, the  *)
(* two-stage universe selection of fetch_symbols and the concurrent tasks  *)
(* of fetch_all_data; merge_data_sources; and Database                     *)
(* (src/app/database.py) with insert_market_data,                          *)
(* calculate_index_performance and save_index_performance.                 *)
(*                                                                         *)
(* From the earlier version kept under src/backup: the request spacing of  *)
(* MarketDataProvider._make_request and the retry of                       *)
(* _get_market_cap_with_retry over DataProviderFactory, and the Database   *)
(* of database_backup.py with build_index and get_composition.             *)
(*                                                                         *)
(* The endpoints /data/fetch, /index/build and /index/performance of       *)
(* src/app/main.py.                                                        *)
(*                                                                         *)
(* The clock of the caches counts minutes; the delays between requests     *)
(* and before retries are seconds.  None (Python's None) is the integer    *)
(* -1; a Python dict is a function whose DOMAIN is its key set.            *)
(***************************************************************************)
EXTENDS Integers, Sequences, FiniteSets, TLC

VARIABLES
    now,               \* datetime.now(), in minutes
    ticks,             \* how often the clock has been advanced
    market_cap_cache,  \* self.market_cap_cache: symbol -> entry
    market_cap_file,   \* data/market_cap_cache.json
    universe_cache,    \* self.universe_cache
    universe_file,     \* data/universe_cache.json
    max_symbols,       \* self.max_symbols
    call,              \* the get_market_cap / get_daily_data call in progress
    run,               \* the fetch_symbols call in progress
    batch,             \* the batch of _process_symbol tasks of fetch_all_data
    fetched_data,      \* `data` of fetch_and_store_data: what fetch_all_data returned
    merged_data,       \* the result of merge_data_sources
    market_data,       \* the table market_data
    index_performance, \* the table index_performance
    performance,       \* the result of calculate_index_performance
    db,                \* the Database call in progress
    cycle,             \* the fetch_and_store_data call in progress
    limiter,           \* the spacing of requests: clock, waiting callers, requests sent
    retry,             \* the _get_market_cap_with_retry call in progress
    yahoo,             \* the _get_market_cap_yahoo call in progress
    series,            \* a provider's daily series being read by get_daily_data
    batch_size,        \* self.batch_size
    api,               \* Redis, the background tasks and the last request of main.py
    backup_db          \* the Database of src/backup/database_backup.py

fetcher_vars == <<now, ticks, market_cap_cache, market_cap_file,
                  universe_cache, universe_file, max_symbols, call, run>>

pipeline_vars == <<batch, fetched_data, merged_data, market_data, index_performance,
                   performance, db, cycle>>

provider_vars == <<limiter, retry, yahoo, series>>
service_vars == <<batch_size, api, backup_db>>

vars == <<now, ticks, market_cap_cache, market_cap_file, universe_cache,
          universe_file, max_symbols, call, run, batch, fetched_data, merged_data,
          market_data, index_performance, performance, db, cycle, limiter, retry,
          yahoo, series,
          batch_size, api, backup_db>>

(***************************************************************************)
(* Bounds of the model.                                                    *)
(***************************************************************************)
\* The clock is advanced at most MaxTicks times.
MaxTicks == 3
\* Market caps are 1..MaxCap.
MaxCap == 2
\* configure_settings sets max_symbols to 1..MaxSymbolsSetting.
MaxSymbolsSetting == 3
\* The batch size of Stage 1: 10 in the source (line 1069), here scaled to the
\* reference lists of the model so that the batch loop takes several turns.
Stage1BatchSize == 2
\* self.batch_size of fetch_all_data: 10 in the source (line 30), here scaled
\* to the universes of the model.
BatchSize == 2
\* merge_data_sources is given at most MaxRaw raw observations.
MaxRaw == 2
\* The dates of the index are 1..MaxDate.
MaxDate == 3
\* The clock of the request limiter runs to MaxClock seconds, and at most
\* MaxRequests requests are started.
MaxClock == 18
MaxRequests == 3

(***************************************************************************)
(* Program constants.                                                      *)
(***************************************************************************)
None == -1
MarketCapTTL == 1440
cache_duration == 10080
DefaultMaxSymbols == 100
\* 1_000_000_000_000, in units of 10^8
OneTrillion == 10000
\* A value pd.to_numeric cannot parse.
Unparseable == -2

\* fallback_symbols of _get_fallback_symbols, before the cut to max_symbols.
CuratedSymbols ==
    <<"AAPL", "MSFT", "NVDA", "GOOG", "GOOGL", "AMZN", "META", "BRK-B",
      "LLY", "AVGO", "TSLA", "WMT", "JPM", "V", "UNH", "XOM", "ORCL", "MA",
      "HD", "PG", "JNJ", "NFLX", "BAC", "CVX", "ABBV", "CRM", "COST", "AMD",
      "KO", "PEP", "TMO", "LIN", "CSCO", "ACN", "ABT", "DHR", "VZ", "MRK",
      "CMCSA", "ADBE", "WFC", "NOW", "TXN", "NEE", "QCOM", "PM", "DIS",
      "IBM", "SPGI", "UBER", "INTU", "ISRG", "CAT", "BKNG", "HON", "GS",
      "AXP", "T", "LOW", "AMGN", "SYK", "DE", "PANW", "AMAT", "PLD", "GE",
      "C", "MDT", "ETN", "VRTX", "BLK", "MDLZ", "ADI", "SCHW", "ADP",
      "GILD", "CB", "LRCX", "FI", "SO", "MU", "KLAC", "REGN", "PYPL", "PGR",
      "CI", "MELI", "MMC", "EOG">>

Symbols == {"A"}
ReferenceLists == {<<"A", "B", "C">>, <<"C", "B", "A">>, <<>>}
Caps == 1..MaxCap
ClockSteps == {1, MarketCapTTL - 1, cache_duration - 1}

Truthy(x) == x # None /\ x # 0

EmptyDict == [k \in {} |-> 0]

Put(dict, k, v) == [x \in (DOMAIN dict) \cup {k} |-> IF x = k THEN v ELSE dict[x]]

\* A cache file: `text` tells whether it holds a complete JSON document.
NoFile ==
    [exists |-> FALSE, text |-> "none", timestamp |-> 0, data |-> EmptyDict]

\* What is left of a file opened with mode 'w' and not written to its end:
\* nothing, or the beginning of the document.
TruncatedFile ==
    [exists |-> TRUE, text |-> "truncated", timestamp |-> 0,
     data |-> EmptyDict]

(***************************************************************************)
(* _load_cache and _save_cache.                                            *)
(***************************************************************************)
\* json.load raises on a truncated document; the exception is caught and
\* the empty dict is returned.
LoadCache(file) ==
    IF /\ file.exists
       /\ file.text = "complete"
       /\ now - file.timestamp < cache_duration
    THEN file.data
    ELSE EmptyDict

\* How a _save_cache call ends: the document was written; open() raised and
\* the file is as it was; or the write stopped after open() had truncated the
\* file (json.dump raised, or the process was terminated).
SaveOutcomes == {"written", "open_failed", "interrupted"}

SaveCache(file, data, outcome) ==
    CASE outcome = "written" ->
             [exists |-> TRUE, text |-> "complete", timestamp |-> now,
              data |-> data]
      [] outcome = "open_failed" -> file
      [] OTHER -> TruncatedFile

(***************************************************************************)
(* The provider adapters, as functions of the response they receive.       *)
(***************************************************************************)
AlphaVantageCapResponses ==
    {[kind |-> k, value |-> 0] : k \in {"note", "exception"}}
    \cup {[kind |-> "overview", value |-> v] : v \in 0..MaxCap}

YahooCapResponses ==
    {[kind |-> k, value |-> 0] : k \in {"no_field", "exception"}}
    \cup {[kind |-> "json", value |-> v] : v \in 0..MaxCap}

GetMarketCapAlphaVantage(resp) ==
    IF resp.kind = "overview" /\ resp.value > 0 THEN resp.value ELSE None

GetMarketCapYahoo(resp) ==
    IF resp.kind = "json" THEN resp.value ELSE None

DailyResponses == {"data", "empty", "exception"}

Rows(provider, symbol) == <<[symbol |-> symbol, source |-> provider]>>

\* _get_daily_data_yahoo, _polygon, _iex, _fmp_alternative: each catches every
\* exception and returns [].
GetDailyDataFallback(provider, symbol, resp) ==
    IF resp = "data" THEN Rows(provider, symbol) ELSE <<>>

AlphaVantageDailyResponses ==
    {"series_in_range", "series_out_of_range", "note", "error_message",
     "other", "exception"}

(***************************************************************************)
(* The call in progress.                                                   *)
(***************************************************************************)
IdleCall ==
    [op |-> "none", symbol |-> "", pc |-> "idle", path |-> "normal",
     market_cap |-> None, trace |-> <<>>, returned |-> FALSE,
     raised |-> FALSE, cap_result |-> None, rows |-> <<>>,
     hit |-> FALSE, age |-> None, stale |-> None, previous |-> EmptyDict]

\* (call.previous: what _load_cache read from the file before the call saved.)
\* One provider attempt of the call: the provider, whether it yielded data
\* (a truthy cap, a non-empty list) and the cap it returned (None for a list).
Attempt(provider, data, value) ==
    [provider |-> provider, data |-> data, value |-> value]

(***************************************************************************)
(* get_market_cap.                                                         *)
(***************************************************************************)
\* A faulty freshness test: the 7-day window of the universe cache.
CacheFreshLongWindow(s) ==
    /\ s \in DOMAIN market_cap_cache
    /\ now - market_cap_cache[s].timestamp < cache_duration

CacheFresh(s) ==
    /\ s \in DOMAIN market_cap_cache
    /\ now - market_cap_cache[s].timestamp < MarketCapTTL

\* A faulty chain: Yahoo is asked whatever Alpha Vantage returned.
AfterAlphaVantageCapAlways(market_cap) == "mc_yahoo"

AfterAlphaVantageCap(market_cap) ==
    IF ~Truthy(market_cap) THEN "mc_yahoo" ELSE "mc_store"

GetMarketCapStart(s) ==
    /\ call.op = "none"
    /\ call' = IF CacheFresh(s)
               THEN [IdleCall EXCEPT !.op = "get_market_cap", !.symbol = s,
                        !.pc = "done", !.returned = TRUE, !.hit = TRUE,
                        !.age = now - market_cap_cache[s].timestamp,
                        !.cap_result = market_cap_cache[s].market_cap]
               ELSE [IdleCall EXCEPT !.op = "get_market_cap", !.symbol = s,
                        !.pc = "mc_alpha_vantage",
                        !.age = IF s \in DOMAIN market_cap_cache
                                THEN now - market_cap_cache[s].timestamp
                                ELSE None,
                        !.stale = IF s \in DOMAIN market_cap_cache
                                  THEN market_cap_cache[s].market_cap
                                  ELSE None]
    /\ UNCHANGED <<now, ticks, market_cap_cache, market_cap_file,
                   universe_cache, universe_file, max_symbols, run>>
    /\ UNCHANGED pipeline_vars
    /\ UNCHANGED provider_vars
    /\ UNCHANGED service_vars

McAlphaVantage(resp) ==
    /\ call.pc = "mc_alpha_vantage"
    /\ LET market_cap == GetMarketCapAlphaVantage(resp) IN
       call' = [call EXCEPT !.market_cap = market_cap,
                   !.trace = Append(@, Attempt("alpha_vantage",
                                               Truthy(market_cap), market_cap)),
                   !.pc = AfterAlphaVantageCap(market_cap)]
    /\ UNCHANGED <<now, ticks, market_cap_cache, market_cap_file,
                   universe_cache, universe_file, max_symbols, run>>
    /\ UNCHANGED pipeline_vars
    /\ UNCHANGED provider_vars
    /\ UNCHANGED service_vars

McYahoo(resp) ==
    /\ call.pc = "mc_yahoo"
    /\ LET market_cap == GetMarketCapYahoo(resp) IN
       call' = [call EXCEPT !.market_cap = market_cap,
                   !.trace = Append(@, Attempt("yahoo", Truthy(market_cap),
                                               market_cap)),
                   !.pc = "mc_store"]
    /\ UNCHANGED <<now, ticks, market_cap_cache, market_cap_file,
                   universe_cache, universe_file, max_symbols, run>>
    /\ UNCHANGED pipeline_vars
    /\ UNCHANGED provider_vars
    /\ UNCHANGED service_vars

McStore(outcome) ==
    /\ call.pc = "mc_store"
    /\ IF Truthy(call.market_cap)
       THEN /\ market_cap_cache' =
                   Put(market_cap_cache, call.symbol,
                       [market_cap |-> call.market_cap, timestamp |-> now])
            /\ market_cap_file' =
                   SaveCache(market_cap_file, market_cap_cache', outcome)
       ELSE UNCHANGED <<market_cap_cache, market_cap_file>>
    /\ call' = [call EXCEPT !.pc = "done", !.returned = TRUE,
                   !.cap_result = call.market_cap,
                   !.previous = LoadCache(market_cap_file)]
    /\ UNCHANGED <<now, ticks, universe_cache, universe_file, max_symbols, run>>
    /\ UNCHANGED pipeline_vars
    /\ UNCHANGED provider_vars
    /\ UNCHANGED service_vars

(***************************************************************************)
(* get_daily_data.  Alpha Vantage is queried inline; an exception there    *)
(* (or in parsing its answer) enters the except branch, which runs the     *)
(* same fallbacks.                                                         *)
(***************************************************************************)
GetDailyDataStart(s) ==
    /\ call.op = "none"
    /\ call' = [IdleCall EXCEPT !.op = "get_daily_data", !.symbol = s,
                   !.pc = "dd_alpha_vantage"]
    /\ UNCHANGED <<now, ticks, market_cap_cache, market_cap_file,
                   universe_cache, universe_file, max_symbols, run>>
    /\ UNCHANGED pipeline_vars
    /\ UNCHANGED provider_vars
    /\ UNCHANGED service_vars

\* What follows the Alpha Vantage request: a non-empty result is returned,
\* an exception is caught by the outer except, anything else falls through.
\* A faulty handler: the exception of the Alpha Vantage request escapes.
AfterAlphaVantageDailyRaising(resp) ==
    IF resp = "series_in_range"
    THEN [pc |-> "done", path |-> "normal", raised |-> FALSE]
    ELSE IF resp = "exception"
    THEN [pc |-> "done", path |-> "except", raised |-> TRUE]
    ELSE [pc |-> "dd_yahoo", path |-> "normal", raised |-> FALSE]

AfterAlphaVantageDaily(resp) ==
    IF resp = "series_in_range"
    THEN [pc |-> "done", path |-> "normal", raised |-> FALSE]
    ELSE IF resp = "exception"
    THEN [pc |-> "dd_yahoo", path |-> "except", raised |-> FALSE]
    ELSE [pc |-> "dd_yahoo", path |-> "normal", raised |-> FALSE]

DdAlphaVantage(resp) ==
    /\ call.pc = "dd_alpha_vantage"
    /\ LET result == IF resp = "series_in_range"
                     THEN Rows("alpha_vantage", call.symbol) ELSE <<>>
           after == AfterAlphaVantageDaily(resp)
       IN call' = [call EXCEPT
                      !.trace = Append(@, Attempt("alpha_vantage",
                                                  result # <<>>, None)),
                      !.pc = after.pc, !.path = after.path,
                      !.raised = after.raised,
                      !.returned = (after.pc = "done"),
                      !.rows = IF after.pc = "done" /\ ~after.raised
                               THEN result ELSE <<>>]
    /\ UNCHANGED <<now, ticks, market_cap_cache, market_cap_file,
                   universe_cache, universe_file, max_symbols, run>>
    /\ UNCHANGED pipeline_vars
    /\ UNCHANGED provider_vars
    /\ UNCHANGED service_vars

\* The statement reached after a fallback provider answered with `rows`.
\* A faulty except branch: IEX is tried before Polygon.
AfterFallbackReordered(path, provider, rows) ==
    IF rows # <<>> THEN "done"
    ELSE IF path = "normal"
    THEN CASE provider = "yahoo" -> "dd_polygon"
           [] provider = "polygon" -> "dd_iex"
           [] provider = "iex" -> "dd_fmp_alternative"
           [] OTHER -> "done"
    ELSE CASE provider = "yahoo" -> "dd_iex"
           [] provider = "iex" -> "dd_polygon"
           [] provider = "polygon" -> "dd_fmp_alternative"
           [] OTHER -> "done"

AfterFallback(path, provider, rows) ==
    IF rows # <<>> THEN "done"
    ELSE IF path = "normal"
    THEN CASE provider = "yahoo" -> "dd_polygon"
           [] provider = "polygon" -> "dd_iex"
           [] provider = "iex" -> "dd_fmp_alternative"
           [] OTHER -> "done"
    ELSE CASE provider = "yahoo" -> "dd_polygon"
           [] provider = "polygon" -> "dd_iex"
           [] provider = "iex" -> "dd_fmp_alternative"
           [] OTHER -> "done"

FallbackStep(provider, resp) ==
    LET result == GetDailyDataFallback(provider, call.symbol, resp)
        next == AfterFallback(call.path, provider, result)
    IN call' = [call EXCEPT
                   !.trace = Append(@, Attempt(provider, result # <<>>, None)),
                   !.pc = next,
                   !.returned = (next = "done"),
                   !.rows = IF next = "done" THEN result ELSE <<>>]

DdYahoo(resp) ==
    /\ call.pc = "dd_yahoo"
    /\ FallbackStep("yahoo", resp)
    /\ UNCHANGED <<now, ticks, market_cap_cache, market_cap_file,
                   universe_cache, universe_file, max_symbols, run>>
    /\ UNCHANGED pipeline_vars
    /\ UNCHANGED provider_vars
    /\ UNCHANGED service_vars

DdPolygon(resp) ==
    /\ call.pc = "dd_polygon"
    /\ FallbackStep("polygon", resp)
    /\ UNCHANGED <<now, ticks, market_cap_cache, market_cap_file,
                   universe_cache, universe_file, max_symbols, run>>
    /\ UNCHANGED pipeline_vars
    /\ UNCHANGED provider_vars
    /\ UNCHANGED service_vars

DdIex(resp) ==
    /\ call.pc = "dd_iex"
    /\ FallbackStep("iex", resp)
    /\ UNCHANGED <<now, ticks, market_cap_cache, market_cap_file,
                   universe_cache, universe_file, max_symbols, run>>
    /\ UNCHANGED pipeline_vars
    /\ UNCHANGED provider_vars
    /\ UNCHANGED service_vars

DdFmpAlternative(resp) ==
    /\ call.pc = "dd_fmp_alternative"
    /\ FallbackStep("fmp_alternative", resp)
    /\ UNCHANGED <<now, ticks, market_cap_cache, market_cap_file,
                   universe_cache, universe_file, max_symbols, run>>
    /\ UNCHANGED pipeline_vars
    /\ UNCHANGED provider_vars
    /\ UNCHANGED service_vars

\* The caller takes the result; the next call may start.
Return ==
    /\ call.pc = "done"
    /\ call' = IdleCall
    /\ UNCHANGED <<now, ticks, market_cap_cache, market_cap_file,
                   universe_cache, universe_file, max_symbols, run>>
    /\ UNCHANGED pipeline_vars
    /\ UNCHANGED provider_vars
    /\ UNCHANGED service_vars

(***************************************************************************)
(* The environment: time passes, and a DataFetcher is constructed anew     *)
(* (__init__ loads both caches from their files).                          *)
(***************************************************************************)
\* get_daily_data reads no clock; time is let pass everywhere else.
AdvanceClock(d) ==
    /\ ticks < MaxTicks
    /\ call.op # "get_daily_data"
    /\ now' = now + d
    /\ ticks' = ticks + 1
    /\ UNCHANGED <<market_cap_cache, market_cap_file, universe_cache,
                   universe_file, max_symbols, call, run>>
    /\ UNCHANGED pipeline_vars
    /\ UNCHANGED provider_vars
    /\ UNCHANGED service_vars

Construct ==
    /\ call.op = "none"
    /\ run.pc = "idle"
    /\ market_cap_cache' = LoadCache(market_cap_file)
    /\ universe_cache' = LoadCache(universe_file)
    /\ max_symbols' = DefaultMaxSymbols
    /\ UNCHANGED <<now, ticks, market_cap_file, universe_file, call, run>>
    /\ UNCHANGED pipeline_vars
    /\ UNCHANGED provider_vars
    /\ UNCHANGED service_vars

\* configure_settings(max_symbols = n)
ConfigureSettings(n) ==
    /\ max_symbols' = n
    /\ UNCHANGED <<now, ticks, market_cap_cache, market_cap_file,
                   universe_cache, universe_file, call, run>>
    /\ UNCHANGED pipeline_vars
    /\ UNCHANGED provider_vars
    /\ UNCHANGED service_vars

(***************************************************************************)
(* fetch_symbols: the universe cache, then Stage 1 (_get_candidate_symbols)*)
(* and Stage 2 (_select_top_symbols_by_market_cap).                        *)
(***************************************************************************)
Min(a, b) == IF a < b THEN a ELSE b

\* seq[:n]: the first n items, and for a negative n all but the last -n.
Take(seq, n) ==
    IF n >= 0 THEN SubSeq(seq, 1, Min(n, Len(seq)))
    ELSE SubSeq(seq, 1, Len(seq) + n)

\* A faulty fallback: no symbol is left of the curated list.
NoFallbackSymbols == Take(CuratedSymbols, 0)

\* _get_fallback_symbols: the curated list, cut to max_symbols.
GetFallbackSymbols == Take(CuratedSymbols, max_symbols)

\* asyncio.gather(*batch_tasks): the results in the order of the tasks,
\* whatever the order in which they completed.
\* A faulty collection: the results in the order of completion.
GatherResultsAsCompleted(tasks, completed) ==
    [i \in 1..Len(tasks) |-> tasks[completed[i]].result]

GatherResults(tasks, completed) ==
    [i \in 1..Len(tasks) |-> tasks[i].result]

\* zip(batch_symbols, batch_results) appended to market_cap_data, the symbols
\* without a result left out (they go to failed_symbols).
RECURSIVE AppendSuccesses(_, _, _)
AppendSuccesses(data, tasks, results) ==
    IF tasks = <<>> THEN data
    ELSE AppendSuccesses(
             IF Head(results) # None
             THEN Append(data, [symbol |-> Head(tasks).symbol,
                                market_cap |-> Head(results)])
             ELSE data,
             Tail(tasks), Tail(results))

\* list.sort(key = market_cap, reverse = True) is stable: an item goes after
\* every item whose cap is at least its own.
InsertDesc(sorted, item) ==
    LET k == Cardinality({i \in 1..Len(sorted) :
                             sorted[i].market_cap >= item.market_cap})
    IN SubSeq(sorted, 1, k) \o <<item>> \o SubSeq(sorted, k + 1, Len(sorted))

SortDesc(data) ==
    LET F[i \in 0..Len(data)] ==
            IF i = 0 THEN <<>> ELSE InsertDesc(F[i - 1], data[i])
    IN F[Len(data)]

\* The end of _get_candidate_symbols.
CandidateSymbols(market_cap_data, all_symbols) ==
    IF market_cap_data # <<>>
    THEN LET ranked == SortDesc(market_cap_data)
         IN [i \in 1..Len(ranked) |-> ranked[i].symbol]
    ELSE all_symbols

\* _select_top_symbols_by_market_cap
SelectTopSymbolsByMarketCap(candidate_symbols) ==
    Take(candidate_symbols, max_symbols)

\* fetch_symbols from the return of _get_candidate_symbols on.
Finish(reference, candidate_symbols, outcome) ==
    IF candidate_symbols = <<>>
    THEN /\ run' = [run EXCEPT !.pc = "done", !.reference = reference,
                       !.candidate_symbols = candidate_symbols,
                       !.result = GetFallbackSymbols, !.served = "fallback"]
         /\ UNCHANGED <<universe_cache, universe_file>>
    ELSE LET top_symbols == SelectTopSymbolsByMarketCap(candidate_symbols) IN
         IF top_symbols = <<>>
         THEN /\ run' = [run EXCEPT !.pc = "done", !.reference = reference,
                            !.candidate_symbols = candidate_symbols,
                            !.result = Take(candidate_symbols, max_symbols),
                            !.served = "candidates"]
              /\ UNCHANGED <<universe_cache, universe_file>>
         ELSE /\ universe_cache' =
                     [symbols |-> top_symbols, last_updated |-> now,
                      selection_method |-> "market_cap_based"]
              /\ universe_file' =
                     SaveCache(universe_file, universe_cache', outcome)
              /\ run' = [run EXCEPT !.pc = "done", !.reference = reference,
                            !.candidate_symbols = candidate_symbols,
                            !.result = top_symbols, !.served = "selection"]

IdleRun ==
    [pc |-> "idle", reference |-> "none", all_symbols |-> <<>>,
     batch_start |-> 0, tasks |-> <<>>, completed |-> <<>>,
     market_cap_data |-> <<>>, looked |-> EmptyDict,
     candidate_symbols |-> <<>>, result |-> <<>>, served |-> "none",
     age |-> None, out_of_order |-> FALSE]

FetchSymbolsStart ==
    /\ run.pc = "idle"
    /\ run' = IF /\ DOMAIN universe_cache # {}
                 /\ universe_cache.symbols # <<>>
                 /\ Len(universe_cache.symbols) >= max_symbols
              THEN [IdleRun EXCEPT !.pc = "done", !.served = "cache",
                       !.age = now - universe_cache.last_updated,
                       !.result = Take(universe_cache.symbols, max_symbols)]
              ELSE [IdleRun EXCEPT !.pc = "reference"]
    /\ UNCHANGED <<now, ticks, market_cap_cache, market_cap_file,
                   universe_cache, universe_file, max_symbols, call>>
    /\ UNCHANGED pipeline_vars
    /\ UNCHANGED provider_vars
    /\ UNCHANGED service_vars

\* pd.read_html failed: _get_candidate_symbols returns the curated list.
ReferenceFailed(outcome) ==
    /\ run.pc = "reference"
    /\ Finish("failed", GetFallbackSymbols, outcome)
    /\ UNCHANGED <<now, ticks, market_cap_cache, market_cap_file,
                   max_symbols, call>>
    /\ UNCHANGED pipeline_vars
    /\ UNCHANGED provider_vars
    /\ UNCHANGED service_vars

\* pd.read_html gave the reference list.
ReferenceFetched(all_symbols) ==
    /\ run.pc = "reference"
    /\ run' = [run EXCEPT !.reference = "fetched",
                  !.all_symbols = all_symbols,
                  !.pc = IF Len(all_symbols) > 0 THEN "batch" ELSE "rank"]
    /\ UNCHANGED <<now, ticks, market_cap_cache, market_cap_file,
                   universe_cache, universe_file, max_symbols, call>>
    /\ UNCHANGED pipeline_vars
    /\ UNCHANGED provider_vars
    /\ UNCHANGED service_vars

\* One turn of the batch loop: a task per symbol of the batch.
StartBatch ==
    /\ run.pc = "batch"
    /\ LET batch_end == Min(run.batch_start + Stage1BatchSize,
                            Len(run.all_symbols))
           batch_symbols == SubSeq(run.all_symbols, run.batch_start + 1,
                                   batch_end)
       IN run' = [run EXCEPT !.pc = "gather", !.completed = <<>>,
                     !.tasks = [i \in 1..Len(batch_symbols) |->
                                  [symbol |-> batch_symbols[i],
                                   pc |-> "yahoo", result |-> None]]]
    /\ UNCHANGED <<now, ticks, market_cap_cache, market_cap_file,
                   universe_cache, universe_file, max_symbols, call>>
    /\ UNCHANGED pipeline_vars
    /\ UNCHANGED provider_vars
    /\ UNCHANGED service_vars

\* A task of the batch ends with `result`.
TaskDone(i, result) ==
    run' = [run EXCEPT !.tasks[i].pc = "done", !.tasks[i].result = result,
               !.completed = Append(@, i),
               !.looked = Put(@, run.tasks[i].symbol, result)]

\* _get_symbol_market_cap: Yahoo first ...
TaskYahoo(i, resp) ==
    /\ run.pc = "gather"
    /\ i \in 1..Len(run.tasks)
    /\ run.tasks[i].pc = "yahoo"
    /\ LET market_cap == GetMarketCapYahoo(resp) IN
       IF Truthy(market_cap) /\ market_cap > 0
       THEN TaskDone(i, market_cap)
       ELSE run' = [run EXCEPT !.tasks[i].pc = "alpha_vantage"]
    /\ UNCHANGED <<now, ticks, market_cap_cache, market_cap_file,
                   universe_cache, universe_file, max_symbols, call>>
    /\ UNCHANGED pipeline_vars
    /\ UNCHANGED provider_vars
    /\ UNCHANGED service_vars

\* ... then Alpha Vantage.
TaskAlphaVantage(i, resp) ==
    /\ run.pc = "gather"
    /\ i \in 1..Len(run.tasks)
    /\ run.tasks[i].pc = "alpha_vantage"
    /\ LET market_cap == GetMarketCapAlphaVantage(resp) IN
       TaskDone(i, IF Truthy(market_cap) /\ market_cap > 0
                   THEN market_cap ELSE None)
    /\ UNCHANGED <<now, ticks, market_cap_cache, market_cap_file,
                   universe_cache, universe_file, max_symbols, call>>
    /\ UNCHANGED pipeline_vars
    /\ UNCHANGED provider_vars
    /\ UNCHANGED service_vars

\* gather returned: the results of the batch are collected.
CollectBatch ==
    /\ run.pc = "gather"
    /\ \A i \in 1..Len(run.tasks) : run.tasks[i].pc = "done"
    /\ LET batch_results == GatherResults(run.tasks, run.completed)
           next_start == run.batch_start + Stage1BatchSize
       IN run' = [run EXCEPT
                     !.market_cap_data =
                         AppendSuccesses(@, run.tasks, batch_results),
                     !.batch_start = next_start,
                     !.tasks = <<>>, !.completed = <<>>,
                     !.out_of_order =
                         @ \/ \E i \in 1..Len(run.completed) :
                                  run.completed[i] # i,
                     !.pc = IF next_start < Len(run.all_symbols)
                            THEN "batch" ELSE "rank"]
    /\ UNCHANGED <<now, ticks, market_cap_cache, market_cap_file,
                   universe_cache, universe_file, max_symbols, call>>
    /\ UNCHANGED pipeline_vars
    /\ UNCHANGED provider_vars
    /\ UNCHANGED service_vars

\* The ranking, Stage 2 and the write of the universe cache.
RankAndSelect(outcome) ==
    /\ run.pc = "rank"
    /\ Finish("fetched",
              CandidateSymbols(run.market_cap_data, run.all_symbols), outcome)
    /\ UNCHANGED <<now, ticks, market_cap_cache, market_cap_file,
                   max_symbols, call>>
    /\ UNCHANGED pipeline_vars
    /\ UNCHANGED provider_vars
    /\ UNCHANGED service_vars

ReturnSymbols ==
    /\ run.pc = "done"
    /\ run' = IdleRun
    /\ UNCHANGED <<now, ticks, market_cap_cache, market_cap_file,
                   universe_cache, universe_file, max_symbols, call>>
    /\ UNCHANGED pipeline_vars
    /\ UNCHANGED provider_vars
    /\ UNCHANGED service_vars

(***************************************************************************)
(* fetch_all_data: the symbols are processed in batches; the tasks of a    *)
(* batch (_process_symbol) run concurrently on one event loop, so a task   *)
(* runs without interruption from one await to the next.  A task awaits    *)
(* get_daily_data, then, inside get_market_cap, the Alpha Vantage request  *)
(* and the Yahoo request; the cache test before the first request and the  *)
(* store and save after the last one contain no await.                     *)
(***************************************************************************)
\* The universes fetch_symbols hands to fetch_all_data.
BatchUniverses == {<<"A", "B">>, <<"B", "A", "C">>}

BatchCapResponses(R) == {r \in R : r.kind \in {"json", "overview", "note"}}

\* The series get_daily_data returns for a symbol that has data.
StockData(symbol) ==
    <<[date |-> 1, symbol |-> symbol, price |-> 1, volume |-> 1]>>

\* data_point['market_cap'] = market_cap or 0
WithMarketCap(stock_data, market_cap) ==
    [i \in 1..Len(stock_data) |->
        [date |-> stock_data[i].date, symbol |-> stock_data[i].symbol,
         price |-> stock_data[i].price,
         market_cap |-> IF Truthy(market_cap) THEN market_cap ELSE 0,
         volume |-> stock_data[i].volume]]

\* `committed` and `last_save` record the stores made so far: the cap last
\* stored under each symbol, and how the last _save_cache ended.  `processed`
\* lists the symbols whose task has ended, `raised` those whose task ended in
\* the except clause of _process_symbol.
IdleBatch ==
    [pc |-> "idle", symbols |-> <<>>, batch_start |-> 0, tasks |-> <<>>,
     all_data |-> <<>>, committed |-> EmptyDict, last_save |-> "none",
     processed |-> <<>>, raised |-> {}]

NewTask(symbol) ==
    [symbol |-> symbol, pc |-> "daily", stock_data |-> <<>>,
     market_cap |-> None, hit |-> FALSE, stored |-> FALSE,
     seen |-> EmptyDict, result |-> <<>>]

\* The dict a task stores its entry in.
\* A faulty store: the task updates, and saves, the copy of the cache it
\* read when it looked its symbol up.
TaskLocalCache(task) == task.seen

SharedCache(task) == market_cap_cache

FetchAllDataStart(symbols) ==
    /\ batch.pc \in {"idle", "done"}
    /\ batch' = [IdleBatch EXCEPT !.pc = "batch", !.symbols = symbols,
                    !.committed = batch.committed,
                    !.last_save = batch.last_save]
    /\ UNCHANGED fetcher_vars
    /\ UNCHANGED <<fetched_data, merged_data, market_data, index_performance,
                   performance, db, cycle>>
    /\ UNCHANGED provider_vars
    /\ UNCHANGED service_vars

StartProcessBatch ==
    /\ batch.pc = "batch"
    /\ LET batch_end == Min(batch.batch_start + batch_size, Len(batch.symbols))
           batch_symbols == SubSeq(batch.symbols, batch.batch_start + 1,
                                   batch_end)
       IN batch' = [batch EXCEPT !.pc = "gather",
                       !.tasks = [i \in 1..Len(batch_symbols) |->
                                     NewTask(batch_symbols[i])]]
    /\ UNCHANGED fetcher_vars
    /\ UNCHANGED <<fetched_data, merged_data, market_data, index_performance,
                   performance, db, cycle>>
    /\ UNCHANGED provider_vars
    /\ UNCHANGED service_vars

\* get_daily_data returned to task i.  With data, the task enters
\* get_market_cap and tests the cache: a fresh entry ends the task, otherwise
\* the Alpha Vantage request is awaited.
ProcessDaily(i, resp) ==
    /\ batch.pc = "gather"
    /\ i \in 1..Len(batch.tasks)
    /\ batch.tasks[i].pc = "daily"
    /\ LET task == batch.tasks[i]
           stock_data == IF resp = "data" THEN StockData(task.symbol)
                         ELSE <<>>
       IN batch' =
            IF stock_data = <<>>
            THEN [batch EXCEPT !.tasks[i].pc = "done"]
            ELSE IF CacheFresh(task.symbol)
            THEN LET market_cap == market_cap_cache[task.symbol].market_cap
                 IN [batch EXCEPT
                        !.tasks[i].pc = "done", !.tasks[i].hit = TRUE,
                        !.tasks[i].stock_data = stock_data,
                        !.tasks[i].market_cap = market_cap,
                        !.tasks[i].seen = market_cap_cache,
                        !.tasks[i].result =
                            WithMarketCap(stock_data, market_cap)]
            ELSE [batch EXCEPT
                     !.tasks[i].pc = "alpha_vantage",
                     !.tasks[i].stock_data = stock_data,
                     !.tasks[i].seen = market_cap_cache]
    /\ UNCHANGED fetcher_vars
    /\ UNCHANGED <<fetched_data, merged_data, market_data, index_performance,
                   performance, db, cycle>>
    /\ UNCHANGED provider_vars
    /\ UNCHANGED service_vars

\* The end of get_market_cap in task i: a truthy cap is stored and the cache
\* saved, and _process_symbol returns the series with the cap.
ProcessStore(i, market_cap, outcome) ==
    LET task == batch.tasks[i] IN
    /\ IF Truthy(market_cap)
       THEN /\ market_cap_cache' =
                   Put(SharedCache(task), task.symbol,
                       [market_cap |-> market_cap, timestamp |-> now])
            /\ market_cap_file' =
                   SaveCache(market_cap_file, market_cap_cache', outcome)
       ELSE UNCHANGED <<market_cap_cache, market_cap_file>>
    /\ batch' = [batch EXCEPT
                    !.tasks[i].pc = "done",
                    !.tasks[i].market_cap = market_cap,
                    !.tasks[i].stored = Truthy(market_cap),
                    !.tasks[i].result =
                        WithMarketCap(task.stock_data, market_cap),
                    !.committed = IF Truthy(market_cap)
                                  THEN Put(@, task.symbol, market_cap)
                                  ELSE @,
                    !.last_save = IF Truthy(market_cap) THEN outcome ELSE @]

\* The Alpha Vantage request of task i returned.
ProcessAlphaVantage(i, resp, outcome) ==
    /\ batch.pc = "gather"
    /\ i \in 1..Len(batch.tasks)
    /\ batch.tasks[i].pc = "alpha_vantage"
    /\ LET market_cap == GetMarketCapAlphaVantage(resp) IN
       IF AfterAlphaVantageCap(market_cap) = "mc_yahoo"
       THEN /\ batch' = [batch EXCEPT !.tasks[i].pc = "yahoo"]
            /\ UNCHANGED <<market_cap_cache, market_cap_file>>
       ELSE ProcessStore(i, market_cap, outcome)
    /\ UNCHANGED <<now, ticks, universe_cache, universe_file, max_symbols,
                   call, run>>
    /\ UNCHANGED <<fetched_data, merged_data, market_data, index_performance,
                   performance, db, cycle>>
    /\ UNCHANGED provider_vars
    /\ UNCHANGED service_vars

\* The Yahoo request of task i returned.
ProcessYahoo(i, resp, outcome) ==
    /\ batch.pc = "gather"
    /\ i \in 1..Len(batch.tasks)
    /\ batch.tasks[i].pc = "yahoo"
    /\ ProcessStore(i, GetMarketCapYahoo(resp), outcome)
    /\ UNCHANGED <<now, ticks, universe_cache, universe_file, max_symbols,
                   call, run>>
    /\ UNCHANGED <<fetched_data, merged_data, market_data, index_performance,
                   performance, db, cycle>>
    /\ UNCHANGED provider_vars
    /\ UNCHANGED service_vars

\* except Exception in _process_symbol: the error is logged and [] returned.
\* A faulty clause: the exception is raised again, and the gather of the
\* batch never hands its results over.
ExceptClauseReraise(task) ==
    [task EXCEPT !.pc = "raised"]

ExceptClause(task) ==
    [task EXCEPT !.pc = "done", !.result = <<>>]

\* An exception is raised inside the try block of task i while it waits for
\* get_daily_data or get_market_cap.
ProcessRaise(i) ==
    /\ batch.pc = "gather"
    /\ i \in 1..Len(batch.tasks)
    /\ batch.tasks[i].pc \in {"daily", "alpha_vantage", "yahoo"}
    /\ batch' = [batch EXCEPT !.tasks[i] = ExceptClause(@),
                    !.raised = @ \cup {batch.tasks[i].symbol}]
    /\ UNCHANGED fetcher_vars
    /\ UNCHANGED <<fetched_data, merged_data, market_data, index_performance,
                   performance, db, cycle>>
    /\ UNCHANGED provider_vars
    /\ UNCHANGED service_vars

RECURSIVE ExtendAll(_, _)
ExtendAll(all_data, tasks) ==
    IF tasks = <<>> THEN all_data
    ELSE ExtendAll(all_data \o Head(tasks).result, Tail(tasks))

\* gather returned: the results are collected in the order of the tasks; after
\* the last batch fetch_all_data returns all_data.
CollectProcessBatch ==
    /\ batch.pc = "gather"
    /\ \A i \in 1..Len(batch.tasks) : batch.tasks[i].pc = "done"
    /\ LET all_data == ExtendAll(batch.all_data, batch.tasks)
           batch_end == Min(batch.batch_start + batch_size,
                            Len(batch.symbols))
           more == batch_end < Len(batch.symbols)
       IN /\ batch' = [batch EXCEPT
                          !.all_data = all_data,
                          !.processed =
                              @ \o [i \in 1..Len(batch.tasks) |->
                                       batch.tasks[i].symbol],
                          !.batch_start = @ + batch_size,
                          !.pc = IF more THEN "batch" ELSE "done"]
          /\ fetched_data' = IF more THEN fetched_data ELSE all_data
    /\ UNCHANGED fetcher_vars
    /\ UNCHANGED <<merged_data, market_data, index_performance, performance,
                   db, cycle>>
    /\ UNCHANGED provider_vars
    /\ UNCHANGED service_vars

(***************************************************************************)
(* merge_data_sources.  A raw observation is a record with the columns     *)
(* date, symbol, price, market_cap, volume; a value that is missing is     *)
(* None, one that is no number is Unparseable.  Market caps and volumes    *)
(* are counted in units of 10^8.                                           *)
(***************************************************************************)
Dates == 1..2
StoreSymbols == {"A", "B"}
RawCaps == {Unparseable, 1, 5}
RawVolumes == {1, 2 * OneTrillion}

RawRecords ==
    [date : Dates, symbol : StoreSymbols, price : {1}, market_cap : RawCaps,
     volume : RawVolumes]

RECURSIVE SeqsUpTo(_, _)
SeqsUpTo(S, n) ==
    IF n = 0 THEN {<<>>}
    ELSE LET shorter == SeqsUpTo(S, n - 1)
         IN shorter \cup {Append(q, x) : q \in {p \in shorter : Len(p) = n - 1},
                                          x \in S}

Key(row) == <<row.date, row.symbol>>

Keys(rows) == {Key(rows[i]) : i \in 1..Len(rows)}

\* pd.to_numeric(errors='coerce'): what is no number becomes NaN (None).
ToNumeric(v) == IF v = Unparseable THEN None ELSE v

\* df.fillna(0)
Fillna(v) == IF v = None THEN 0 ELSE v

ConvertTypes(row) ==
    [date |-> row.date, symbol |-> row.symbol,
     price |-> ToNumeric(row.price),
     market_cap |-> ToNumeric(row.market_cap),
     volume |-> ToNumeric(row.volume)]

\* (the adapters set the symbol of every observation)
FillRow(row) ==
    [date |-> Fillna(row.date), symbol |-> row.symbol,
     price |-> Fillna(row.price), market_cap |-> Fillna(row.market_cap),
     volume |-> Fillna(row.volume)]

RECURSIVE SelectRows(_, _)
SelectRows(rows, keep) ==
    IF keep = {} THEN <<>>
    ELSE LET i == CHOOSE k \in keep : \A j \in keep : k <= j
         IN <<rows[i]>> \o SelectRows(rows, keep \ {i})

\* df.drop_duplicates(subset=[...]): of the rows with one value of the subset
\* columns the first is kept.
\* A faulty subset: the date alone.
DuplicatedByDate(rows, i) ==
    \E j \in 1..(i - 1) : rows[j].date = rows[i].date

\* A faulty test: no row is taken for a duplicate.
DuplicatedNever(rows, i) == FALSE

Duplicated(rows, i) ==
    \E j \in 1..(i - 1) : Key(rows[j]) = Key(rows[i])

DropDuplicates(rows) ==
    SelectRows(rows, {i \in 1..Len(rows) : ~Duplicated(rows, i)})

MergeDataSources(rows) ==
    IF rows = <<>> THEN <<>>
    ELSE LET converted == [i \in 1..Len(rows) |-> ConvertTypes(rows[i])]
             unique == DropDuplicates(converted)
         IN [i \in 1..Len(unique) |-> FillRow(unique[i])]

(***************************************************************************)
(* fetch_and_store_data (main.py): the raw observations are merged and     *)
(* handed to insert_market_data.                                           *)
(***************************************************************************)
IdleCycle == [pc |-> "idle", passes |-> 0]

\* merged_data = data_fetcher.merge_data_sources(data)
Merge ==
    /\ cycle.pc = "fetched"
    /\ fetched_data # <<>>
    /\ merged_data' = MergeDataSources(fetched_data)
    /\ cycle' = [cycle EXCEPT !.pc = "merged", !.passes = 1]
    /\ UNCHANGED fetcher_vars
    /\ UNCHANGED <<batch, fetched_data, market_data, index_performance, performance,
                   db>>
    /\ UNCHANGED provider_vars
    /\ UNCHANGED service_vars

\* merge_data_sources applied to its own output.
MergeAgain ==
    /\ cycle.pc = "merged"
    /\ cycle.passes = 1
    /\ fetched_data' = merged_data
    /\ merged_data' = MergeDataSources(merged_data)
    /\ cycle' = [cycle EXCEPT !.passes = 2]
    /\ UNCHANGED fetcher_vars
    /\ UNCHANGED <<batch, market_data, index_performance, performance, db>>
    /\ UNCHANGED provider_vars
    /\ UNCHANGED service_vars

(***************************************************************************)
(* Database.insert_market_data.  Every statement is committed on its own   *)
(* (the connection is in autocommit mode, no transaction is opened).       *)
(***************************************************************************)
IdleDb ==
    [op |-> "none", pc |-> "idle", df |-> <<>>, before |-> {},
     error |-> FALSE, field_swap_logged |-> FALSE, start_date |-> 0,
     end_date |-> 0]

\* cleaned_item, dropna(subset=['date', 'symbol', 'price']) and fillna(0) of
\* market_cap and volume.
CleanedRows(rows) ==
    LET kept == SelectRows(rows, {i \in 1..Len(rows) :
                                     /\ rows[i].date # None
                                     /\ rows[i].price # None})
    IN [i \in 1..Len(kept) |->
           [date |-> kept[i].date, symbol |-> kept[i].symbol,
            price |-> kept[i].price,
            market_cap |-> Fillna(kept[i].market_cap),
            volume |-> Fillna(kept[i].volume)]]

\* The check of the first row of the frame, which only writes to the log.
FieldSwapDetected(df) ==
    /\ df # <<>>
    /\ ~(df[1].market_cap > OneTrillion)
    /\ df[1].volume > OneTrillion

FrameRows(df) == {df[i] : i \in 1..Len(df)}

FrameDates(df) == {df[i].date : i \in 1..Len(df)}

\* The PRIMARY KEY (date, symbol) of market_data.
UniqueKeys(rows) ==
    \A r1, r2 \in rows : Key(r1) = Key(r2) => r1 = r2

InsertMarketDataStart ==
    /\ cycle.pc = "merged"
    /\ db.pc = "idle"
    /\ LET df == CleanedRows(merged_data) IN
       db' = IF merged_data = <<>>
             THEN [IdleDb EXCEPT !.op = "insert_market_data", !.pc = "done",
                      !.before = market_data]
             ELSE [IdleDb EXCEPT !.op = "insert_market_data",
                      !.pc = "delete", !.df = df, !.before = market_data,
                      !.field_swap_logged = FieldSwapDetected(df)]
    /\ cycle' = [cycle EXCEPT !.pc = "storing"]
    /\ UNCHANGED fetcher_vars
    /\ UNCHANGED <<batch, fetched_data, merged_data, market_data, index_performance,
                   performance>>
    /\ UNCHANGED provider_vars
    /\ UNCHANGED service_vars

\* The rows the DELETE of insert_market_data removes: those of the dates of
\* the frame.
DeletedRows(table, df) == {row \in table : row.date \in FrameDates(df)}

\* DELETE FROM market_data WHERE date IN (SELECT DISTINCT date FROM df)
InsertMarketDataDelete ==
    /\ db.op = "insert_market_data"
    /\ db.pc = "delete"
    /\ market_data' = market_data \ DeletedRows(market_data, db.df)
    /\ db' = [db EXCEPT !.pc = "insert"]
    /\ UNCHANGED fetcher_vars
    /\ UNCHANGED <<batch, fetched_data, merged_data, index_performance, performance,
                   cycle>>
    /\ UNCHANGED provider_vars
    /\ UNCHANGED service_vars

\* INSERT INTO market_data ... SELECT ... FROM df.  ok: the statement was
\* executed; it fails as a whole on a key that occurs twice.  Otherwise the
\* statement raised (the exception is logged and swallowed) or the process
\* ended before it.
InsertMarketDataInsert(ok) ==
    /\ db.op = "insert_market_data"
    /\ db.pc = "insert"
    /\ LET rows == FrameRows(db.df)
           inserted == /\ ok
                       /\ Cardinality(rows) = Len(db.df)
                       /\ UniqueKeys(market_data \cup rows)
       IN /\ market_data' = IF inserted THEN market_data \cup rows
                            ELSE market_data
          /\ db' = [db EXCEPT !.pc = "done", !.error = ~inserted]
    /\ cycle' = [cycle EXCEPT !.pc = "stored"]
    /\ UNCHANGED fetcher_vars
    /\ UNCHANGED <<batch, fetched_data, merged_data, index_performance, performance>>
    /\ UNCHANGED provider_vars
    /\ UNCHANGED service_vars

(***************************************************************************)
(* Database.calculate_index_performance.  A DOUBLE is modelled exactly, as *)
(* a fraction <<numerator, denominator>> in lowest terms; NULL has the     *)
(* denominator 0.                                                          *)
(***************************************************************************)
RECURSIVE GCD(_, _)
GCD(a, b) == IF b = 0 THEN a ELSE GCD(b, a % b)

Abs(a) == IF a < 0 THEN 0 - a ELSE a

Null == <<0, 0>>

Frac(n, d) ==
    IF d = 0 THEN Null
    ELSE LET g == GCD(Abs(n), Abs(d))
             s == IF d < 0 THEN 0 - 1 ELSE 1
         IN <<(s * n) \div g, (s * d) \div g>>

Zero == <<0, 1>>
One == <<1, 1>>

Plus(x, y) == Frac(x[1] * y[2] + y[1] * x[2], x[2] * y[2])
Minus(x, y) == Frac(x[1] * y[2] - y[1] * x[2], x[2] * y[2])
Times(x, y) == Frac(x[1] * y[1], x[2] * y[2])
Over(x, y) == Frac(x[1] * y[2], x[2] * y[1])

\* SUM(market_cap) and SUM(price * market_cap) over a set of rows
RECURSIVE SumMarketCap(_)
SumMarketCap(rows) ==
    IF rows = {} THEN 0
    ELSE LET row == CHOOSE r \in rows : TRUE
         IN row.market_cap + SumMarketCap(rows \ {row})

RECURSIVE SumPriceMarketCap(_)
SumPriceMarketCap(rows) ==
    IF rows = {} THEN 0
    ELSE LET row == CHOOSE r \in rows : TRUE
         IN row.price * row.market_cap + SumPriceMarketCap(rows \ {row})

\* WHERE date BETWEEN ? AND ? AND market_cap > 0 AND price > 0
Qualifying(table, start_date, end_date) ==
    {row \in table : /\ row.date >= start_date
                     /\ row.date <= end_date
                     /\ row.market_cap > 0
                     /\ row.price > 0}

RECURSIVE Ascending(_)
Ascending(S) ==
    IF S = {} THEN <<>>
    ELSE LET least == CHOOSE x \in S : \A y \in S : x <= y
         IN <<least>> \o Ascending(S \ {least})

\* A faulty grouping: a row for every date of the range, the dates without a
\* qualifying observation filled with a total of 0.
DailyTotalsZeroFilled(table, start_date, end_date) ==
    LET rows == Qualifying(table, start_date, end_date)
        dates == Ascending(start_date..end_date)
    IN [i \in 1..Len(dates) |->
           LET of_date == {row \in rows : row.date = dates[i]}
               total == SumMarketCap(of_date)
           IN [date |-> dates[i], total_market_cap |-> total,
               weighted_price |-> Frac(SumPriceMarketCap(of_date),
                                       total)]]

\* daily_totals: GROUP BY date HAVING SUM(market_cap) > 0 ORDER BY date
DailyTotals(table, start_date, end_date) ==
    LET rows == Qualifying(table, start_date, end_date)
        dates == Ascending({d \in {row.date : row \in rows} :
                    SumMarketCap({row \in rows : row.date = d}) > 0})
    IN [i \in 1..Len(dates) |->
           LET of_date == {row \in rows : row.date = dates[i]}
               total == SumMarketCap(of_date)
           IN [date |-> dates[i], total_market_cap |-> total,
               weighted_price |-> Frac(SumPriceMarketCap(of_date),
                                       total)]]

\* LAG(weighted_price) OVER (ORDER BY date) of row i.
\* A faulty lag: the weighted price of the calendar day before.
LagCalendarDay(daily_totals, i) ==
    IF \E j \in 1..Len(daily_totals) :
           daily_totals[j].date = daily_totals[i].date - 1
    THEN LET j == CHOOSE k \in 1..Len(daily_totals) :
                     daily_totals[k].date = daily_totals[i].date - 1
         IN daily_totals[j].weighted_price
    ELSE Null

Lag(daily_totals, i) ==
    IF i = 1 THEN Null ELSE daily_totals[i - 1].weighted_price

\* returns
DailyReturn(daily_totals, i) ==
    LET prev_price == Lag(daily_totals, i) IN
    IF prev_price = Null THEN Zero
    ELSE IF prev_price = Zero THEN Zero
    ELSE Minus(Over(daily_totals[i].weighted_price, prev_price), One)

RECURSIVE RunningSum(_, _)
RunningSum(daily_return, i) ==
    IF i = 0 THEN Zero
    ELSE Plus(RunningSum(daily_return, i - 1), daily_return[i])

\* The last SELECT: row_num = 1 gives 0, any other row
\* SUM(daily_return) OVER (... UNBOUNDED PRECEDING AND CURRENT ROW) - daily_return
CumulativeReturn(daily_return, i) ==
    IF i = 1 THEN Zero
    ELSE Minus(RunningSum(daily_return, i), daily_return[i])

CalculateIndexPerformanceResult(table, start_date, end_date) ==
    LET daily_totals == DailyTotals(table, start_date, end_date)
        daily_return == [i \in 1..Len(daily_totals) |->
                            DailyReturn(daily_totals, i)]
    IN [i \in 1..Len(daily_totals) |->
           [date |-> daily_totals[i].date,
            daily_return |-> daily_return[i],
            total_market_cap |-> daily_totals[i].total_market_cap,
            cumulative_return |-> CumulativeReturn(daily_return, i)]]

\* performance = db.calculate_index_performance(start_date, end_date)
CalculateIndexPerformance(start_date, end_date) ==
    /\ db.pc = "idle"
    /\ start_date <= end_date
    /\ performance' =
           CalculateIndexPerformanceResult(market_data, start_date, end_date)
    /\ db' = [IdleDb EXCEPT !.op = "calculate_index_performance",
                 !.pc = "done", !.start_date = start_date,
                 !.end_date = end_date]
    /\ UNCHANGED fetcher_vars
    /\ UNCHANGED <<batch, fetched_data, merged_data, market_data, index_performance,
                   cycle>>
    /\ UNCHANGED provider_vars
    /\ UNCHANGED service_vars

(***************************************************************************)
(* Database.save_index_performance                                         *)
(***************************************************************************)
SaveIndexPerformanceStart ==
    /\ db.op = "calculate_index_performance"
    /\ db.pc = "done"
    /\ db' = IF performance = <<>>
             THEN [IdleDb EXCEPT !.op = "save_index_performance",
                      !.pc = "done"]
             ELSE [IdleDb EXCEPT !.op = "save_index_performance",
                      !.pc = "delete", !.df = performance]
    /\ UNCHANGED fetcher_vars
    /\ UNCHANGED <<batch, fetched_data, merged_data, market_data, index_performance,
                   performance, cycle>>
    /\ UNCHANGED provider_vars
    /\ UNCHANGED service_vars

\* DELETE FROM index_performance WHERE date IN (...)
SaveIndexPerformanceDelete ==
    /\ db.op = "save_index_performance"
    /\ db.pc = "delete"
    /\ index_performance' =
           {row \in index_performance : row.date \notin FrameDates(db.df)}
    /\ db' = [db EXCEPT !.pc = "insert"]
    /\ UNCHANGED fetcher_vars
    /\ UNCHANGED <<batch, fetched_data, merged_data, market_data, performance, cycle>>
    /\ UNCHANGED provider_vars
    /\ UNCHANGED service_vars

\* INSERT INTO index_performance SELECT * FROM df_copy
SaveIndexPerformanceInsert(ok) ==
    /\ db.op = "save_index_performance"
    /\ db.pc = "insert"
    /\ index_performance' = IF ok THEN index_performance \cup FrameRows(db.df)
                            ELSE index_performance
    /\ db' = [db EXCEPT !.pc = "done", !.error = ~ok]
    /\ UNCHANGED fetcher_vars
    /\ UNCHANGED <<batch, fetched_data, merged_data, market_data, performance, cycle>>
    /\ UNCHANGED provider_vars
    /\ UNCHANGED service_vars

\* The call returned; the next one may start.
DbReturn ==
    /\ db.pc = "done"
    /\ db' = IdleDb
    /\ UNCHANGED fetcher_vars
    /\ UNCHANGED <<batch, fetched_data, merged_data, market_data, index_performance,
                   performance, cycle>>
    /\ UNCHANGED provider_vars
    /\ UNCHANGED service_vars

(***************************************************************************)
(* The spacing of requests.  The clock of `limiter` counts seconds.         *)
(* get_daily_data sleeps rate_limit_delay seconds and then sends its Alpha  *)
(* Vantage request; the tasks of a batch of fetch_all_data do so side by    *)
(* side.  MarketDataProvider._make_request takes the provider's semaphore,  *)
(* waits in _wait_for_rate_limit and then sends its request.  `issued`      *)
(* lists, per endpoint, the times at which requests were sent.              *)
(***************************************************************************)
\* self.rate_limit_delay, and the rate_limit of the Alpha Vantage provider
rate_limit_delay == 12
requests_per_minute == 5

\* min_interval = 60 / self.config.requests_per_minute
min_interval == 60 \div requests_per_minute

Callers == {1, 2}
Endpoints == {"alpha_vantage_daily", "provider_url"}

IdleCaller == [pc |-> "idle", via |-> "none", now |-> 0, wake |-> 0]

IdleLimiter ==
    [clock |-> 0, started |-> 0, last_request_time |-> None, semaphore |-> 0,
     callers |-> [c \in Callers |-> IdleCaller],
     issued |-> [e \in Endpoints |-> <<>>]]

\* get_daily_data is entered by task c: await asyncio.sleep(rate_limit_delay)
GetDailyDataSleep(c) ==
    /\ limiter.callers[c].pc = "idle"
    /\ limiter.started < MaxRequests
    /\ limiter' = [limiter EXCEPT
                      !.started = @ + 1,
                      !.callers[c] =
                          [pc |-> "sleep", via |-> "get_daily_data", now |-> 0,
                           wake |-> limiter.clock + rate_limit_delay]]
    /\ UNCHANGED <<retry, yahoo, series>>
    /\ UNCHANGED fetcher_vars
    /\ UNCHANGED pipeline_vars
    /\ UNCHANGED service_vars

\* The sleep of task c is over: session.get sends the request.
GetDailyDataRequest(c) ==
    /\ limiter.callers[c].pc = "sleep"
    /\ limiter.callers[c].via = "get_daily_data"
    /\ limiter.clock >= limiter.callers[c].wake
    /\ limiter' = [limiter EXCEPT
                      !.callers[c] = IdleCaller,
                      !.issued["alpha_vantage_daily"] =
                          Append(@, limiter.clock)]
    /\ UNCHANGED <<retry, yahoo, series>>
    /\ UNCHANGED fetcher_vars
    /\ UNCHANGED pipeline_vars
    /\ UNCHANGED service_vars

\* _make_request by caller c: the semaphore is taken and _wait_for_rate_limit
\* reads the clock; it sleeps if the last request is too recent, and else
\* records `now` and the request is sent.
MakeRequestStart(c) ==
    /\ limiter.callers[c].pc = "idle"
    /\ limiter.started < MaxRequests
    /\ limiter.semaphore = 0
    /\ LET current == limiter.clock
           last_request == limiter.last_request_time
           time_since_last == current - last_request
       IN limiter' =
            IF last_request # None /\ time_since_last < min_interval
            THEN [limiter EXCEPT
                     !.started = @ + 1, !.semaphore = c,
                     !.callers[c] =
                         [pc |-> "sleep", via |-> "make_request",
                          now |-> current,
                          wake |-> current + (min_interval - time_since_last)]]
            ELSE [limiter EXCEPT
                     !.started = @ + 1, !.semaphore = c,
                     !.last_request_time = current,
                     !.callers[c] =
                         [pc |-> "response", via |-> "make_request",
                          now |-> current, wake |-> 0],
                     !.issued["provider_url"] = Append(@, current)]
    /\ UNCHANGED <<retry, yahoo, series>>
    /\ UNCHANGED fetcher_vars
    /\ UNCHANGED pipeline_vars
    /\ UNCHANGED service_vars

\* The sleep of _wait_for_rate_limit is over: last_request_time[endpoint] = now,
\* with the `now` that was read before the sleep, and the request is sent.
MakeRequestWake(c) ==
    /\ limiter.callers[c].pc = "sleep"
    /\ limiter.callers[c].via = "make_request"
    /\ limiter.clock >= limiter.callers[c].wake
    /\ limiter' = [limiter EXCEPT
                      !.last_request_time = limiter.callers[c].now,
                      !.callers[c].pc = "response",
                      !.issued["provider_url"] = Append(@, limiter.clock)]
    /\ UNCHANGED <<retry, yahoo, series>>
    /\ UNCHANGED fetcher_vars
    /\ UNCHANGED pipeline_vars
    /\ UNCHANGED service_vars

\* The response arrived: _make_request returns and the semaphore is released.
MakeRequestDone(c) ==
    /\ limiter.callers[c].pc = "response"
    /\ limiter' = [limiter EXCEPT !.semaphore = 0,
                      !.callers[c] = IdleCaller]
    /\ UNCHANGED <<retry, yahoo, series>>
    /\ UNCHANGED fetcher_vars
    /\ UNCHANGED pipeline_vars
    /\ UNCHANGED service_vars

\* A second passes.
Tick ==
    /\ limiter.clock < MaxClock
    /\ limiter' = [limiter EXCEPT !.clock = @ + 1]
    /\ UNCHANGED <<retry, yahoo, series>>
    /\ UNCHANGED fetcher_vars
    /\ UNCHANGED pipeline_vars
    /\ UNCHANGED service_vars

(***************************************************************************)
(* _get_market_cap_with_retry of src/backup/data_fetcher_backup.py over    *)
(* DataProviderFactory.get_market_cap                                      *)
(* (src/backup/data_providers_original/factory.py).  Delays are seconds.   *)
(***************************************************************************)
max_retries == 3
base_delay == 20

\* self.providers of DataProviderFactory, with both API keys configured.
Providers == <<"alpha_vantage", "finnhub", "yahoo">>

\* What provider.get_market_cap can answer: a value, 0, None, or an exception.
ProviderAnswers == {[kind |-> "value", market_cap |-> 5],
                    [kind |-> "value", market_cap |-> 0],
                    [kind |-> "value", market_cap |-> None],
                    [kind |-> "raise", market_cap |-> None]}

\* How the cache check at the head of the try block can end: a fresh entry,
\* no fresh entry, or an exception whose text does or does not contain "429".
CacheChecks == {"hit", "miss", "raise_429", "raise_other"}

RECURSIVE Pow(_, _)
Pow(b, e) == IF e = 0 THEN 1 ELSE b * Pow(b, e - 1)

MayRetryOnceMore(attempt) == attempt <= max_retries

\* `attempt < self.max_retries`
MayRetry(attempt) == attempt < max_retries

\* The delay before the retry: base_delay * (2 ** attempt) after a failed
\* lookup, base_delay ** attempt in the except clause.
RetryDelay(path, attempt) ==
    IF path = "except" THEN Pow(base_delay, attempt)
                       ELSE base_delay * Pow(2, attempt)

IdleRetry == [pc |-> "idle", attempt |-> 0, provider |-> 1, invoked |-> <<>>,
              delays |-> <<>>, result |-> None]

\* `if attempt < self.max_retries ...: delay = ...; await asyncio.sleep(delay)`,
\* and else `return None`.  `signal` says whether the failure is one the path
\* retries on.
RetryOrGiveUp(r, path, signal) ==
    IF MayRetry(r.attempt) /\ signal
    THEN [r EXCEPT !.pc = "sleep",
                   !.delays = Append(@, [attempt |-> r.attempt, path |-> path,
                                         delay |-> RetryDelay(path, r.attempt)])]
    ELSE [r EXCEPT !.pc = "done", !.result = None]

\* _get_market_cap_with_retry(symbol, session) is called, attempt = 0.
GetMarketCapWithRetryStart ==
    /\ retry.pc = "idle"
    /\ retry' = [IdleRetry EXCEPT !.pc = "enter"]
    /\ UNCHANGED <<limiter, yahoo, series>>
    /\ UNCHANGED fetcher_vars
    /\ UNCHANGED pipeline_vars
    /\ UNCHANGED service_vars

\* The cache check of one entry of the function; an exception in it reaches
\* the except clause, which retries if its text contains "429".
RetryEnter(check) ==
    /\ retry.pc = "enter"
    /\ retry' =
         CASE check = "hit"  -> [retry EXCEPT !.pc = "done", !.result = 5]
           [] check = "miss" -> [retry EXCEPT !.pc = "factory", !.provider = 1]
           [] OTHER -> RetryOrGiveUp(retry, "except", check = "raise_429")
    /\ UNCHANGED <<limiter, yahoo, series>>
    /\ UNCHANGED fetcher_vars
    /\ UNCHANGED pipeline_vars
    /\ UNCHANGED service_vars

\* One turn of the loop of DataProviderFactory.get_market_cap: the provider
\* answers; a positive value is returned, anything else (an exception too)
\* moves to the next provider, and after the last one the factory returns
\* None and the caller retries or gives up.
FactoryGetMarketCap(answer) ==
    /\ retry.pc = "factory"
    /\ LET asked == [retry EXCEPT
                        !.invoked = Append(@, Providers[retry.provider])]
       IN retry' =
            IF answer.kind = "value" /\ Truthy(answer.market_cap)
               /\ answer.market_cap > 0
            THEN [asked EXCEPT !.pc = "done", !.result = answer.market_cap]
            ELSE IF retry.provider < Len(Providers)
            THEN [asked EXCEPT !.provider = @ + 1]
            ELSE RetryOrGiveUp(asked, "failed", TRUE)
    /\ UNCHANGED <<limiter, yahoo, series>>
    /\ UNCHANGED fetcher_vars
    /\ UNCHANGED pipeline_vars
    /\ UNCHANGED service_vars

\* asyncio.sleep(delay) is over:
\* `return await self._get_market_cap_with_retry(symbol, session, attempt + 1)`.
RetrySleepOver ==
    /\ retry.pc = "sleep"
    /\ retry' = [retry EXCEPT !.pc = "enter", !.attempt = @ + 1]
    /\ UNCHANGED <<limiter, yahoo, series>>
    /\ UNCHANGED fetcher_vars
    /\ UNCHANGED pipeline_vars
    /\ UNCHANGED service_vars

\* The call has returned to _get_market_caps.
RetryReturn ==
    /\ retry.pc = "done"
    /\ retry' = [retry EXCEPT !.pc = "idle"]
    /\ UNCHANGED <<limiter, yahoo, series>>
    /\ UNCHANGED fetcher_vars
    /\ UNCHANGED pipeline_vars
    /\ UNCHANGED service_vars

(***************************************************************************)
(* _get_market_cap_yahoo of src/app/data_fetcher.py: the approaches tried  *)
(* in turn and what each extracts from its response.  Market caps of this  *)
(* section are in units of $100,000.                                       *)
(***************************************************************************)
MinMarketCap == 10
MaxMarketCap == 500000000

\* api_approaches; quote_url is `'quote' in approach['url']`.
ApiApproaches ==
    <<[name |-> "chart_API_no_crumb", quote_url |-> FALSE,
       requires_crumb |-> FALSE],
      [name |-> "search_API_no_crumb", quote_url |-> FALSE,
       requires_crumb |-> FALSE],
      [name |-> "quoteSummary_summaryDetail", quote_url |-> TRUE,
       requires_crumb |-> TRUE],
      [name |-> "quoteSummary_price", quote_url |-> TRUE,
       requires_crumb |-> TRUE],
      [name |-> "quoteSummary_API_v2", quote_url |-> TRUE,
       requires_crumb |-> TRUE],
      [name |-> "quote_page_scrape", quote_url |-> TRUE,
       requires_crumb |-> FALSE]>>

NotCrumbRequired(approach) == ~approach.requires_crumb

\* `if not crumb: api_approaches = [... if not approach.get("requires_crumb")]`
UsableApproaches(crumb) ==
    IF crumb THEN ApiApproaches ELSE SelectSeq(ApiApproaches, NotCrumbRequired)

\* Values a response can carry: below the range, its two ends, above it.
ScrapedValues == {5, MinMarketCap, MaxMarketCap, MaxMarketCap + 1}

\* A JSON body: which of the keys quoteSummary / chart / quotes it has, the
\* first market-cap field found, its value and regularMarketPrice if present.
JsonResponses ==
    [kind : {"json"}, shape : {"quoteSummary", "chart", "quotes"},
     field : {"marketCap", "sharesOutstanding", "none"},
     value : ScrapedValues, price : {None, 3}, matches : {<<>>}]

\* A body that is not JSON: the values the regex patterns match, in order.
HtmlResponses ==
    [kind : {"html"}, shape : {"none"}, field : {"none"}, value : {None},
     price : {None},
     matches : {<<>>, <<5>>, <<5, MinMarketCap>>, <<MaxMarketCap>>,
                <<MaxMarketCap + 1>>}]

\* A status other than 200, or an exception of the request.
FailedResponses ==
    [kind : {"http_error", "raise"}, shape : {"none"}, field : {"none"},
     value : {None}, price : {None}, matches : {<<>>}]

YahooResponses == JsonResponses \cup HtmlResponses \cup FailedResponses

\* The three JSON branches: every one returns the value it found, the product
\* with regularMarketPrice for sharesOutstanding; the search branch reads
\* marketCap only.
JsonMarketCap(resp) ==
    IF resp.field = "none" THEN None
    ELSE IF resp.shape = "quotes"
    THEN IF resp.field = "marketCap" THEN resp.value ELSE None
    ELSE IF resp.field = "sharesOutstanding" /\ resp.price # None
    THEN resp.value * resp.price
    ELSE resp.value

\* `if 1_000_000 <= market_cap <= 50_000_000_000_000`
Realistic(market_cap) ==
    MinMarketCap <= market_cap /\ market_cap <= MaxMarketCap

\* The loop over the regex patterns: the first realistic value is returned.
HtmlMarketCap(matches) ==
    LET realistic == SelectSeq(matches, Realistic)
    IN IF realistic = <<>> THEN None ELSE Head(realistic)

\* What one approach returns from its response; None when the loop goes on.
ExtractMarketCap(approach, resp) ==
    CASE resp.kind = "json" -> JsonMarketCap(resp)
      [] resp.kind = "html" ->
            IF approach.quote_url THEN HtmlMarketCap(resp.matches) ELSE None
      [] OTHER -> None

\* The extraction strategy of a response.
Strategy(resp) ==
    CASE resp.kind = "html" -> "html_pattern"
      [] resp.kind = "json" /\ resp.field = "sharesOutstanding"
         /\ resp.price # None /\ resp.shape # "quotes" -> "shares_product"
      [] resp.kind = "json" -> "json_field"
      [] OTHER -> resp.kind

IdleYahoo == [pc |-> "idle", approaches |-> <<>>, approach_idx |-> 1,
              log |-> <<>>, strategy |-> "none", result |-> None]

\* _get_market_cap_yahoo(symbol, session): _get_yahoo_crumb answered.
GetMarketCapYahooStart(crumb) ==
    /\ yahoo.pc = "idle"
    /\ yahoo' = [IdleYahoo EXCEPT !.pc = "approach",
                                  !.approaches = UsableApproaches(crumb)]
    /\ UNCHANGED <<limiter, retry, series>>
    /\ UNCHANGED fetcher_vars
    /\ UNCHANGED pipeline_vars
    /\ UNCHANGED service_vars

\* One turn of the loop over api_approaches: the request, and the extraction
\* from its response; after the last approach the function returns None.
YahooApproach(resp) ==
    /\ yahoo.pc = "approach"
    /\ LET approach == yahoo.approaches[yahoo.approach_idx]
           market_cap == ExtractMarketCap(approach, resp)
           tried == [yahoo EXCEPT
                        !.log = Append(@, [name |-> approach.name,
                                           outcome |-> Strategy(resp)])]
       IN yahoo' =
            IF market_cap # None
            THEN [tried EXCEPT !.pc = "done", !.result = market_cap,
                               !.strategy = Strategy(resp)]
            ELSE IF yahoo.approach_idx < Len(yahoo.approaches)
            THEN [tried EXCEPT !.approach_idx = @ + 1]
            ELSE [tried EXCEPT !.pc = "done", !.result = None]
    /\ UNCHANGED <<limiter, retry, series>>
    /\ UNCHANGED fetcher_vars
    /\ UNCHANGED pipeline_vars
    /\ UNCHANGED service_vars

\* The value is back at the caller.
YahooReturn ==
    /\ yahoo.pc = "done"
    /\ yahoo' = [yahoo EXCEPT !.pc = "idle"]
    /\ UNCHANGED <<limiter, retry, series>>
    /\ UNCHANGED fetcher_vars
    /\ UNCHANGED pipeline_vars
    /\ UNCHANGED service_vars

(***************************************************************************)
(* The date filter of get_daily_data and of its four fallback adapters.    *)
(* A date is a day number; a point in time is day * 24 + hour.  Alpha      *)
(* Vantage, IEX and FMP give date strings, read by strptime as midnight;   *)
(* the Yahoo chart API and Polygon give timestamps, read by fromtimestamp  *)
(* with their time of day and labelled by strftime with their day.         *)
(***************************************************************************)
DailyPriority == <<"alpha_vantage", "yahoo", "polygon", "iex", "fmp_alternative">>

TimestampProviders == {"yahoo", "polygon"}

\* One entry of a provider's series: its day and, in a timestamp, its hour.
SeriesEntries == [day : 0..(MaxDate + 1), hour : {0, 14}]

\* datetime.strptime(date_str, "%Y-%m-%d") / datetime.fromtimestamp(timestamp)
DateObj(provider, entry) ==
    IF provider \in TimestampProviders THEN entry.day * 24 + entry.hour
                                       ELSE entry.day * 24

\* date_str as given, or date_obj.strftime("%Y-%m-%d")
DateStr(date_obj) == date_obj \div 24

InRangeFromStart(date_obj, start_date, end_date) == start_date * 24 <= date_obj

\* `start <= date_obj <= end`, start and end being strptime of the arguments
InRange(date_obj, start_date, end_date) ==
    start_date * 24 <= date_obj /\ date_obj <= end_date * 24

\* The loop over the entries of one provider's response.
RECURSIVE ParseSeries(_, _, _, _, _)
ParseSeries(provider, entries, symbol, start_date, end_date) ==
    IF entries = <<>> THEN <<>>
    ELSE LET date_obj == DateObj(provider, Head(entries))
             rest == ParseSeries(provider, Tail(entries), symbol,
                                 start_date, end_date)
         IN IF InRange(date_obj, start_date, end_date)
            THEN <<[date |-> DateStr(date_obj), symbol |-> symbol]>> \o rest
            ELSE rest

IdleSeries == [pc |-> "idle", symbol |-> "none", start_date |-> 0,
               end_date |-> 0, provider |-> 1, entries |-> <<>>,
               result |-> <<>>]

\* get_daily_data(symbol, start_date, end_date, session) is called.
GetDailyDataSeriesStart(symbol, start_date, end_date) ==
    /\ series.pc = "idle"
    /\ series' = [IdleSeries EXCEPT !.pc = "provider", !.symbol = symbol,
                                    !.start_date = start_date,
                                    !.end_date = end_date]
    /\ UNCHANGED <<limiter, retry, yahoo>>
    /\ UNCHANGED fetcher_vars
    /\ UNCHANGED pipeline_vars
    /\ UNCHANGED service_vars

\* The provider whose turn it is answers with `entries`: a non-empty result
\* is returned, an empty one moves to the next provider, and after the last
\* provider get_daily_data returns [].
SeriesProviderAnswers(entries) ==
    /\ series.pc = "provider"
    /\ LET result == ParseSeries(DailyPriority[series.provider], entries,
                                 series.symbol, series.start_date,
                                 series.end_date)
       IN series' =
            IF result # <<>>
            THEN [series EXCEPT !.pc = "done", !.entries = entries,
                                !.result = result]
            ELSE IF series.provider < Len(DailyPriority)
            THEN [series EXCEPT !.provider = @ + 1]
            ELSE [series EXCEPT !.pc = "done", !.entries = entries]
    /\ UNCHANGED <<limiter, retry, yahoo>>
    /\ UNCHANGED fetcher_vars
    /\ UNCHANGED pipeline_vars
    /\ UNCHANGED service_vars

\* The rows are back at the caller.
SeriesReturn ==
    /\ series.pc = "done"
    /\ series' = IdleSeries
    /\ UNCHANGED <<limiter, retry, yahoo>>
    /\ UNCHANGED fetcher_vars
    /\ UNCHANGED pipeline_vars
    /\ UNCHANGED service_vars


\* configure_settings(batch_size = n)
ConfigureBatchSize(n) ==
    /\ batch_size' = n
    /\ UNCHANGED <<api, backup_db>>
    /\ UNCHANGED fetcher_vars
    /\ UNCHANGED pipeline_vars
    /\ UNCHANGED provider_vars

(***************************************************************************)
(* The endpoints POST /data/fetch, POST /index/build and GET               *)
(* /index/performance of src/app/main.py.  A handler contains no await: it *)
(* runs from the request to the response without interruption.  `api`      *)
(* holds redis_available and the keys of Redis, the background tasks that  *)
(* were added, and the last request with its response; `cache_read` says   *)
(* that the request read Redis, `task_added` that it added a background    *)
(* task.                                                                   *)
(***************************************************************************)
\* At most MaxApiRequests requests are answered.
MaxApiRequests == 3

IdleApi ==
    [requests |-> 0, redis_available |-> FALSE, redis |-> EmptyDict,
     background_tasks |-> <<>>, endpoint |-> "none", start_date |-> 0,
     end_date |-> 0, force |-> FALSE, status_code |-> 0, body |-> "none",
     cache_read |-> FALSE, task_added |-> FALSE]

\* raise HTTPException(status_code = n)
HTTPException(n) ==
    [class |-> "HTTPException", status_code |-> n, body |-> "detail"]

\* datetime.strptime has raised.
ValueError == [class |-> "ValueError", status_code |-> 0, body |-> "none"]

\* A local variable is read that was bound on another branch only.
UnboundLocalError ==
    [class |-> "UnboundLocalError", status_code |-> 0, body |-> "none"]

\* return JSONResponse(body)
JSONResponse(body) ==
    [class |-> "JSONResponse", status_code |-> 200, body |-> body]

\* The except clauses that close every handler: `except ValueError` answers
\* 400, `except Exception` answers 500.  HTTPException is an Exception and no
\* clause before names it, so an HTTPException raised in the try block is
\* taken by the second clause.
EndpointExcept(outcome) ==
    IF outcome.class = "JSONResponse" THEN outcome
    ELSE IF outcome.class = "ValueError" THEN HTTPException(400)
    ELSE HTTPException(500)

\* datetime.strptime(d, "%Y-%m-%d") succeeds: 0 stands for a string that is
\* not a date.
ValidDate(d) == d >= 1

\* f"fetch_status:{start_date}:{end_date}", f"performance:{start_date}:{end_date}"
CacheKey(prefix, start_date, end_date) == <<prefix, start_date, end_date>>

\* db.get_market_data(start_date, end_date)
GetMarketData(table, start_date, end_date) ==
    {row \in table : start_date <= row.date /\ row.date <= end_date}

\* db.get_index_performance(start_date, end_date): the stored rows of the
\* range, ORDER BY date.
GetIndexPerformance(stored, start_date, end_date) ==
    LET rows == {row \in stored :
                    start_date <= row.date /\ row.date <= end_date}
        dates == Ascending({row.date : row \in rows})
    IN [i \in 1..Len(dates) |-> CHOOSE row \in rows : row.date = dates[i]]

\* db.save_index_performance(df): the rows of the dates of df are deleted and
\* the rows of df inserted.
SavedPerformance(stored, df) ==
    {row \in stored : row.date \notin FrameDates(df)} \cup FrameRows(df)

\* The response of a handler and the request it answered.
Answered(endpoint, start_date, end_date, force, response) ==
    [api EXCEPT !.requests = @ + 1, !.endpoint = endpoint,
                !.start_date = start_date, !.end_date = end_date,
                !.force = force, !.status_code = response.status_code,
                !.body = response.body, !.cache_read = FALSE,
                !.task_added = FALSE]

\* POST /data/fetch
ApiFetchData(start_date, end_date, force_refresh) ==
    /\ api.requests < MaxApiRequests
    /\ LET cache_key == CacheKey("fetch_status", start_date, end_date)
           read == api.redis_available /\ ~force_refresh
           outcome ==
               IF ~ValidDate(start_date) \/ ~ValidDate(end_date)
               THEN ValueError
               ELSE IF start_date > end_date THEN HTTPException(400)
               ELSE IF read /\ cache_key \in DOMAIN api.redis
                    THEN JSONResponse("cached")
                    ELSE JSONResponse("in_progress")
           added == outcome = JSONResponse("in_progress")
           answered == Answered("fetch_data", start_date, end_date,
                                force_refresh, EndpointExcept(outcome))
       IN api' = [answered EXCEPT
              !.cache_read = read /\ outcome.class = "JSONResponse",
              !.task_added = added,
              !.background_tasks =
                  IF added THEN Append(@, <<start_date, end_date>>) ELSE @,
              !.redis = IF added /\ api.redis_available
                        THEN Put(@, cache_key, "in_progress") ELSE @]
    /\ UNCHANGED <<batch_size, backup_db>>
    /\ UNCHANGED fetcher_vars
    /\ UNCHANGED pipeline_vars
    /\ UNCHANGED provider_vars

\* POST /index/build
ApiBuildIndex(start_date, end_date, force_rebuild) ==
    /\ api.requests < MaxApiRequests
    /\ LET calculated ==
               CalculateIndexPerformanceResult(market_data, start_date,
                                               end_date)
           built ==
               /\ ~force_rebuild
               /\ GetMarketData(market_data, start_date, end_date) # {}
               /\ calculated # <<>>
           outcome ==
               IF ~ValidDate(start_date) \/ ~ValidDate(end_date)
               THEN ValueError
               ELSE IF start_date > end_date THEN HTTPException(400)
               ELSE IF built THEN JSONResponse("already_built")
                    ELSE JSONResponse("building")
           added == outcome = JSONResponse("building")
           answered == Answered("build_index", start_date, end_date,
                                force_rebuild, EndpointExcept(outcome))
       IN /\ api' = [answered EXCEPT
                 !.task_added = added,
                 !.background_tasks =
                     IF added THEN Append(@, <<start_date, end_date>>)
                     ELSE @]
          /\ index_performance' =
                 IF outcome = JSONResponse("already_built")
                 THEN SavedPerformance(index_performance, calculated)
                 ELSE index_performance
    /\ UNCHANGED <<batch_size, backup_db>>
    /\ UNCHANGED fetcher_vars
    /\ UNCHANGED <<batch, fetched_data, merged_data, market_data,
                   performance, db, cycle>>
    /\ UNCHANGED provider_vars

\* GET /index/performance.  cache_key is bound on the branch
\* `if not force_recalculate` only, and read where the result is cached.
ApiGetIndexPerformance(start_date, end_date, force_recalculate) ==
    /\ api.requests < MaxApiRequests
    /\ LET cache_key == CacheKey("performance", start_date, end_date)
           read == ~force_recalculate /\ api.redis_available
           hit == read /\ cache_key \in DOMAIN api.redis
           stored == IF force_recalculate THEN <<>>
                     ELSE GetIndexPerformance(index_performance, start_date,
                                              end_date)
           calculate == stored = <<>> \/ force_recalculate
           cleared ==
               IF force_recalculate
               THEN index_performance
                        \ GetMarketData(index_performance, start_date,
                                        end_date)
               ELSE index_performance
           calculated ==
               CalculateIndexPerformanceResult(market_data, start_date,
                                               end_date)
           performance_df == IF calculate THEN calculated ELSE stored
           outcome ==
               IF hit THEN JSONResponse(api.redis[cache_key])
               ELSE IF performance_df = <<>>
               THEN IF GetMarketData(market_data, start_date, end_date) = {}
                    THEN HTTPException(404)
                    ELSE HTTPException(500)
               ELSE IF api.redis_available /\ force_recalculate
               THEN UnboundLocalError
               ELSE JSONResponse(performance_df)
           answered == Answered("get_index_performance", start_date,
                                end_date, force_recalculate,
                                EndpointExcept(outcome))
       IN /\ api' = [answered EXCEPT
                 !.cache_read = read,
                 !.redis = IF /\ ~hit
                              /\ outcome.class = "JSONResponse"
                              /\ api.redis_available
                           THEN Put(@, cache_key, performance_df) ELSE @]
          /\ index_performance' =
                 IF hit THEN index_performance
                 ELSE IF calculate /\ calculated # <<>>
                 THEN SavedPerformance(cleared, calculated)
                 ELSE cleared
    /\ UNCHANGED <<batch_size, backup_db>>
    /\ UNCHANGED fetcher_vars
    /\ UNCHANGED <<batch, fetched_data, merged_data, market_data,
                   performance, db, cycle>>
    /\ UNCHANGED provider_vars

(***************************************************************************)
(* Database of src/backup/database_backup.py: market_data,                 *)
(* index_constituents and index_performance, with insert_market_data,      *)
(* build_index and get_composition.  Every conn.execute is a statement of  *)
(* its own, committed when it ends; a DOUBLE is an exact fraction.         *)
(***************************************************************************)
\* `WHERE rank <= 100`: 100 in the source (line 114), here scaled to the
\* tables of the model so that the cut leaves symbols out.
MaxConstituents == 2
\* insert_market_data and build_index are called at most MaxCalls times in all.
MaxCalls == 3

BackupDates == {1, 2}

\* The rows insert_market_data is given for one date: the price of A rises
\* from one date to the next, B is as large as A or as C.
BackupDayData(d) ==
    {a \cup b \cup c :
        a \in {{}, {[date |-> d, symbol |-> "A", price |-> d,
                     market_cap |-> 2]}},
        b \in {{}} \cup {{[date |-> d, symbol |-> "B", price |-> 1,
                            market_cap |-> m]} : m \in {1, 2}},
        c \in {{}, {[date |-> d, symbol |-> "C", price |-> 1,
                     market_cap |-> 1]}}} \ {{}}

\* `range` and `outcome` describe the last build_index call: its arguments and
\* how it ended; `changed` says that insert_market_data was called since;
\* `before` holds the index tables as they were when the call started, and
\* `rerun` says that it repeated the call before it with no insert between.
EmptyBackupDb ==
    [pc |-> "idle", market_data |-> {}, index_constituents |-> {},
     index_performance |-> {}, calls |-> 0,
     range |-> <<0, 0>>,
     outcome |-> "none", changed |-> FALSE, rerun |-> FALSE,
     before |-> [index_constituents |-> {}, index_performance |-> {}],
     composition_date |-> 0, composition |-> <<>>]

\* DELETE FROM market_data WHERE (date, symbol) IN (...); INSERT INTO market_data
BackupInsert(table, data) ==
    {row \in table : \A d \in data : Key(d) # Key(row)} \cup data

OrderedBeforeAscending(a, b) == a.market_cap <= b.market_cap

\* `ORDER BY market_cap DESC`
OrderedBefore(a, b) == a.market_cap >= b.market_cap

\* ROW_NUMBER() OVER (PARTITION BY date ORDER BY market_cap DESC) for the rows
\* of one date: every numbering of the rows that the order allows; rows of
\* equal market_cap may be numbered either way.
RankedStocks(rows) ==
    {ranked \in [1..Cardinality(rows) -> rows] :
        /\ \A i, j \in 1..Cardinality(rows) : ranked[i] = ranked[j] => i = j
        /\ \A i, j \in 1..Cardinality(rows) :
              i < j => OrderedBefore(ranked[i], ranked[j])}

RowsOfDate(table, d) == {row \in table : row.date = d}

\* The dates of market_data `BETWEEN ? AND ?`.
DatesBetween(table, start_date, end_date) ==
    {row.date : row \in {r \in table : start_date <= r.date /\ r.date <= end_date}}

\* The ways the engine may number the rows of every date of the range.
Rankings(table, start_date, end_date) ==
    LET dates == DatesBetween(table, start_date, end_date)
        all == UNION {RankedStocks(RowsOfDate(table, d)) : d \in dates}
    IN {f \in [dates -> all] :
           \A d \in dates : f[d] \in RankedStocks(RowsOfDate(table, d))}

\* INSERT INTO index_constituents ... WHERE rank <= 100: the WHERE is applied
\* before COUNT(*) OVER (PARTITION BY date), so the weight is one over the
\* number of rows that were kept.
NewConstituents(ranking) ==
    UNION {LET k == Min(Len(ranking[d]), MaxConstituents)
           IN {[date |-> d, symbol |-> ranking[d][i].symbol,
                weight |-> Frac(1, k), rank |-> i] : i \in 1..k} :
           d \in DOMAIN ranking}

\* DELETE FROM index_constituents WHERE date BETWEEN ? AND ?
ConstituentsKept(constituents, start_date, end_date) ==
    {ic \in constituents : ~(start_date <= ic.date /\ ic.date <= end_date)}

\* index_constituents ic JOIN market_data m ON ic.date = m.date AND
\* ic.symbol = m.symbol
Joined(constituents, table) ==
    {[date |-> p[1].date, symbol |-> p[1].symbol, weight |-> p[1].weight,
      rank |-> p[1].rank, price |-> p[2].price,
      market_cap |-> p[2].market_cap] :
        p \in {q \in constituents \X table : Key(q[1]) = Key(q[2])}}

\* LAG(m.price) OVER (PARTITION BY m.symbol ORDER BY m.date): the price of the
\* symbol in the joined row of the date before; None on its first date.
LagPrice(joined, row) ==
    LET earlier == {j \in joined : j.symbol = row.symbol /\ j.date < row.date}
    IN IF earlier = {} THEN None
       ELSE (CHOOSE j \in earlier : \A e \in earlier : e.date <= j.date).price

\* ic.weight * (m.price / LAG(m.price) - 1); NULL on the first date.
WeightedReturn(joined, row) ==
    LET lag == LagPrice(joined, row)
    IN IF lag = None THEN Null
       ELSE Times(row.weight, Minus(Frac(row.price, lag), One))

\* SUM over a set of rows: NULLs are skipped, and the sum of none is NULL.
RECURSIVE SumReturns(_, _)
SumReturns(joined, rows) ==
    IF rows = {} THEN Null
    ELSE LET row == CHOOSE r \in rows : TRUE
             term == WeightedReturn(joined, row)
             rest == SumReturns(joined, rows \ {row})
         IN IF term = Null THEN rest
            ELSE IF rest = Null THEN term ELSE Plus(term, rest)

\* daily_index_return: one row per date of the joined rows.
DailyIndexReturn(joined, d) == SumReturns(joined, RowsOfDate(joined, d))

\* EXP(SUM(LN(1 + COALESCE(daily_return, 0))) OVER (ORDER BY date)) - 1: the
\* product of 1 + daily_return over the dates up to d, less 1.
RECURSIVE Compound(_, _)
Compound(joined, dates) ==
    IF dates = {} THEN One
    ELSE LET d == CHOOSE x \in dates : TRUE
             r == DailyIndexReturn(joined, d)
         IN Times(Plus(One, IF r = Null THEN Zero ELSE r),
                  Compound(joined, dates \ {d}))

\* The rows the last statement of build_index inserts: no date range is
\* given, so they cover every date that has constituents.
NewPerformance(constituents, table) ==
    LET joined == Joined(constituents, table)
        dates == {j.date : j \in joined}
    IN {[date |-> d, daily_return |-> DailyIndexReturn(joined, d),
         cumulative_return |->
             Minus(Compound(joined, {x \in dates : x <= d}), One)] :
        d \in dates}

\* INSERT INTO index_performance: date is the PRIMARY KEY, and a row for a
\* date that the table holds already makes the statement fail.
DuplicateKey(stored, rows) ==
    \E old \in stored, new \in rows : old.date = new.date

\* insert_market_data(data), data being the rows of one date.
BackupInsertMarketData(data) ==
    /\ backup_db.pc = "idle"
    /\ backup_db.calls < MaxCalls
    /\ backup_db' = [backup_db EXCEPT
                        !.calls = @ + 1,
                        !.changed = TRUE,
                        !.market_data = BackupInsert(@, data)]
    /\ UNCHANGED <<batch_size, api>>
    /\ UNCHANGED fetcher_vars
    /\ UNCHANGED pipeline_vars
    /\ UNCHANGED provider_vars

\* build_index(start_date, end_date): the constituents of the range are
\* deleted and inserted anew, then the performance rows are inserted.  An
\* exception of the last statement leaves the first two committed.
BuildIndex(start_date, end_date) ==
    /\ backup_db.pc = "idle"
    /\ backup_db.calls < MaxCalls
    /\ \E ranking \in Rankings(backup_db.market_data, start_date, end_date) :
          LET constituents ==
                  ConstituentsKept(backup_db.index_constituents,
                                   start_date, end_date)
                  \cup NewConstituents(ranking)
              rows == NewPerformance(constituents, backup_db.market_data)
              failed == DuplicateKey(backup_db.index_performance, rows)
          IN backup_db' = [backup_db EXCEPT
                 !.pc = "built",
                 !.calls = @ + 1,
                 !.range = <<start_date, end_date>>,
                 !.index_constituents = constituents,
                 !.index_performance = IF failed THEN @ ELSE @ \cup rows,
                 !.outcome = IF failed THEN "duplicate_key" ELSE "ok",
                 !.changed = FALSE,
                 !.rerun =
                     /\ backup_db.outcome = "ok"
                     /\ backup_db.range = <<start_date, end_date>>
                     /\ ~backup_db.changed,
                 !.before =
                     [index_constituents |-> backup_db.index_constituents,
                      index_performance |-> backup_db.index_performance]]
    /\ UNCHANGED <<batch_size, api>>
    /\ UNCHANGED fetcher_vars
    /\ UNCHANGED pipeline_vars
    /\ UNCHANGED provider_vars

\* `ORDER BY ic.rank`
SortByRank(rows) ==
    CHOOSE seq \in [1..Cardinality(rows) -> rows] :
        /\ \A i, j \in 1..Cardinality(rows) : seq[i] = seq[j] => i = j
        /\ \A i, j \in 1..Cardinality(rows) :
              i < j => seq[i].rank <= seq[j].rank

\* get_composition(date)
GetComposition(d) ==
    /\ backup_db.pc = "built"
    /\ backup_db.composition_date = 0
    /\ LET rows == RowsOfDate(Joined(backup_db.index_constituents,
                                     backup_db.market_data), d)
           sorted == SortByRank(rows)
       IN backup_db' = [backup_db EXCEPT
              !.composition_date = d,
              !.composition =
                  [i \in 1..Len(sorted) |->
                      [symbol |-> sorted[i].symbol,
                       weight |-> sorted[i].weight,
                       price |-> sorted[i].price,
                       market_cap |-> sorted[i].market_cap]]]
    /\ UNCHANGED <<batch_size, api>>
    /\ UNCHANGED fetcher_vars
    /\ UNCHANGED pipeline_vars
    /\ UNCHANGED provider_vars

\* The caller goes on: the next statement may be issued.
BackupReturn ==
    /\ backup_db.pc = "built"
    /\ backup_db' = [backup_db EXCEPT !.pc = "idle", !.composition_date = 0,
                                      !.composition = <<>>]
    /\ UNCHANGED <<batch_size, api>>
    /\ UNCHANGED fetcher_vars
    /\ UNCHANGED pipeline_vars
    /\ UNCHANGED provider_vars


(***************************************************************************)
(* The specifications.                                                     *)
(***************************************************************************)
Init ==
    /\ now = 0
    /\ ticks = 0
    /\ market_cap_cache = EmptyDict
    /\ market_cap_file = NoFile
    /\ universe_cache = EmptyDict
    /\ universe_file = NoFile
    /\ max_symbols = DefaultMaxSymbols
    /\ call = IdleCall
    /\ run = IdleRun
    /\ batch = IdleBatch
    /\ fetched_data = <<>>
    /\ merged_data = <<>>
    /\ market_data = {}
    /\ index_performance = {}
    /\ performance = <<>>
    /\ db = IdleDb
    /\ cycle = IdleCycle
    /\ limiter = IdleLimiter
    /\ retry = IdleRetry
    /\ yahoo = IdleYahoo
    /\ series = IdleSeries
    /\ batch_size = BatchSize
    /\ api = IdleApi
    /\ backup_db = EmptyBackupDb

\* get_market_cap and get_daily_data, the market-cap cache and the clock.
Next ==
    \/ \E s \in Symbols : GetMarketCapStart(s)
    \/ \E resp \in AlphaVantageCapResponses : McAlphaVantage(resp)
    \/ \E resp \in YahooCapResponses : McYahoo(resp)
    \/ \E outcome \in SaveOutcomes : McStore(outcome)
    \/ \E s \in Symbols : GetDailyDataStart(s)
    \/ \E resp \in AlphaVantageDailyResponses : DdAlphaVantage(resp)
    \/ \E resp \in DailyResponses : DdYahoo(resp)
    \/ \E resp \in DailyResponses : DdPolygon(resp)
    \/ \E resp \in DailyResponses : DdIex(resp)
    \/ \E resp \in DailyResponses : DdFmpAlternative(resp)
    \/ Return
    \/ \E d \in ClockSteps : AdvanceClock(d)
    \/ Construct

Spec == Init /\ [][Next]_vars

\* One universe selection after the other, over reference lists of up to
\* MaxPool symbols, under any setting of max_symbols.
RankCapResponses(R) == {r \in R : r.kind \in {"json", "overview", "exception"}}

NextRank ==
    \/ \E n \in 1..MaxSymbolsSetting : run.pc = "idle" /\ ConfigureSettings(n)
    \/ FetchSymbolsStart
    \/ \E outcome \in SaveOutcomes : ReferenceFailed(outcome)
    \/ \E all_symbols \in ReferenceLists : ReferenceFetched(all_symbols)
    \/ StartBatch
    \/ \E i \in 1..Stage1BatchSize, resp \in RankCapResponses(YahooCapResponses) :
           TaskYahoo(i, resp)
    \/ \E i \in 1..Stage1BatchSize, resp \in RankCapResponses(AlphaVantageCapResponses) :
           TaskAlphaVantage(i, resp)
    \/ CollectBatch
    \/ \E outcome \in SaveOutcomes : RankAndSelect(outcome)
    \/ ReturnSymbols

SpecRank == Init /\ [][NextRank]_vars

\* The universe cache over time: selections over one short reference list,
\* the clock, and restarts of the process.
UniverseCapResponses(R) ==
    {r \in R : r.kind \in {"json", "overview"} /\ r.value <= 1}

NextUniverse ==
    \/ \E n \in 1..MaxSymbolsSetting : run.pc = "idle" /\ ConfigureSettings(n)
    \/ FetchSymbolsStart
    \/ \E outcome \in SaveOutcomes : ReferenceFailed(outcome)
    \/ ReferenceFetched(<<"A", "B">>)
    \/ StartBatch
    \/ \E i \in 1..Stage1BatchSize, resp \in UniverseCapResponses(YahooCapResponses) :
           TaskYahoo(i, resp)
    \/ \E i \in 1..Stage1BatchSize, resp \in UniverseCapResponses(AlphaVantageCapResponses) :
           TaskAlphaVantage(i, resp)
    \/ CollectBatch
    \/ \E outcome \in SaveOutcomes : RankAndSelect(outcome)
    \/ ReturnSymbols
    \/ \E d \in ClockSteps : run.pc = "idle" /\ AdvanceClock(d)
    \/ Construct

SpecUniverse == Init /\ [][NextUniverse]_vars

\* One fetch_all_data, by a process whose market-cap cache is empty or holds
\* an entry for symbol A that is fresh or older than 24 h.
BatchCaches ==
    {EmptyDict, [s \in {"A"} |-> [market_cap |-> 2, timestamp |-> 0]]}

InitBatch ==
    /\ now \in {0, MarketCapTTL}
    /\ ticks = 0
    /\ market_cap_cache \in BatchCaches
    /\ market_cap_file = IF market_cap_cache = EmptyDict THEN NoFile
                         ELSE [exists |-> TRUE, text |-> "complete",
                               timestamp |-> 0, data |-> market_cap_cache]
    /\ universe_cache = EmptyDict
    /\ universe_file = NoFile
    /\ max_symbols = DefaultMaxSymbols
    /\ call = IdleCall
    /\ run = IdleRun
    /\ batch = IdleBatch
    /\ fetched_data = <<>>
    /\ merged_data = <<>>
    /\ market_data = {}
    /\ index_performance = {}
    /\ performance = <<>>
    /\ db = IdleDb
    /\ cycle = IdleCycle
    /\ limiter = IdleLimiter
    /\ retry = IdleRetry
    /\ yahoo = IdleYahoo
    /\ series = IdleSeries
    /\ batch_size = BatchSize
    /\ api = IdleApi
    /\ backup_db = EmptyBackupDb

NextBatch ==
    \/ \E symbols \in BatchUniverses :
           batch.pc = "idle" /\ FetchAllDataStart(symbols)
    \/ StartProcessBatch
    \/ \E i \in 1..BatchSize, resp \in {"data", "empty"} : ProcessDaily(i, resp)
    \/ \E i \in 1..BatchSize, resp \in BatchCapResponses(AlphaVantageCapResponses),
          outcome \in SaveOutcomes : ProcessAlphaVantage(i, resp, outcome)
    \/ \E i \in 1..BatchSize, resp \in BatchCapResponses(YahooCapResponses),
          outcome \in SaveOutcomes : ProcessYahoo(i, resp, outcome)
    \/ CollectProcessBatch

SpecBatch == InitBatch /\ [][NextBatch]_vars

\* One fetch_all_data in which every provider may fail in every way and any
\* task may raise.  The event loop runs every task that can run, and every
\* request ends within the timeout of the session, so no step that is
\* possible is put off forever.
NextFetchCycle ==
    \/ \E symbols \in BatchUniverses :
           batch.pc = "idle" /\ FetchAllDataStart(symbols)
    \/ StartProcessBatch
    \/ \E i \in 1..BatchSize, resp \in {"data", "empty"} : ProcessDaily(i, resp)
    \/ \E i \in 1..BatchSize, resp \in AlphaVantageCapResponses,
          outcome \in SaveOutcomes : ProcessAlphaVantage(i, resp, outcome)
    \/ \E i \in 1..BatchSize, resp \in YahooCapResponses,
          outcome \in SaveOutcomes : ProcessYahoo(i, resp, outcome)
    \/ \E i \in 1..BatchSize : ProcessRaise(i)
    \/ CollectProcessBatch

SpecFetchCycle ==
    InitBatch /\ [][NextFetchCycle]_vars /\ WF_vars(NextFetchCycle)

\* The rows market_data holds before the observations are stored.
StoredRows ==
    {[date |-> 1, symbol |-> s, price |-> 2, market_cap |-> 5, volume |-> 1] :
        s \in StoreSymbols}

StoredTables == {{}, StoredRows}

\* merge_data_sources and insert_market_data, from any list of at most MaxRaw
\* raw observations and a table of StoredTables.
InitStore ==
    /\ now = 0
    /\ ticks = 0
    /\ market_cap_cache = EmptyDict
    /\ market_cap_file = NoFile
    /\ universe_cache = EmptyDict
    /\ universe_file = NoFile
    /\ max_symbols = DefaultMaxSymbols
    /\ call = IdleCall
    /\ run = IdleRun
    /\ batch = IdleBatch
    /\ fetched_data \in SeqsUpTo(RawRecords, MaxRaw)
    /\ merged_data = <<>>
    /\ market_data \in StoredTables
    /\ index_performance = {}
    /\ performance = <<>>
    /\ db = IdleDb
    /\ cycle = [IdleCycle EXCEPT !.pc = "fetched"]
    /\ limiter = IdleLimiter
    /\ retry = IdleRetry
    /\ yahoo = IdleYahoo
    /\ series = IdleSeries
    /\ batch_size = BatchSize
    /\ api = IdleApi
    /\ backup_db = EmptyBackupDb

NextStore ==
    \/ Merge
    \/ MergeAgain
    \/ InsertMarketDataStart
    \/ InsertMarketDataDelete
    \/ \E ok \in BOOLEAN : InsertMarketDataInsert(ok)
    \/ DbReturn

SpecStore == InitStore /\ [][NextStore]_vars

\* The index over any table of the dates 1..MaxDate: on each date symbol A
\* has no row, a row that qualifies or one that does not (no market cap, or
\* no price), and symbol B has no row or one that qualifies.
IndexDates == 1..MaxDate

DayOptions ==
    {a \cup b :
        a \in {{}} \cup {{[symbol |-> "A", price |-> p[1], market_cap |-> p[2]]} :
                            p \in {<<100, 1>>, <<110, 1>>, <<110, 0>>,
                                   <<0, 1>>}},
        b \in {{}, {[symbol |-> "B", price |-> 110, market_cap |-> 3]}}}

TableOf(t) ==
    UNION {{[date |-> d, symbol |-> o.symbol, price |-> o.price,
             market_cap |-> o.market_cap, volume |-> 1] : o \in t[d]} :
           d \in IndexDates}

IndexRanges == {<<1, MaxDate>>, <<2, MaxDate>>}

InitIndex ==
    /\ now = 0
    /\ ticks = 0
    /\ market_cap_cache = EmptyDict
    /\ market_cap_file = NoFile
    /\ universe_cache = EmptyDict
    /\ universe_file = NoFile
    /\ max_symbols = DefaultMaxSymbols
    /\ call = IdleCall
    /\ run = IdleRun
    /\ batch = IdleBatch
    /\ fetched_data = <<>>
    /\ merged_data = <<>>
    /\ market_data \in {TableOf(t) : t \in [IndexDates -> DayOptions]}
    /\ index_performance = {}
    /\ performance = <<>>
    /\ db = IdleDb
    /\ cycle = IdleCycle
    /\ limiter = IdleLimiter
    /\ retry = IdleRetry
    /\ yahoo = IdleYahoo
    /\ series = IdleSeries
    /\ batch_size = BatchSize
    /\ api = IdleApi
    /\ backup_db = EmptyBackupDb

NextIndex ==
    \/ \E range \in IndexRanges : CalculateIndexPerformance(range[1], range[2])
    \/ SaveIndexPerformanceStart
    \/ SaveIndexPerformanceDelete
    \/ \E ok \in BOOLEAN : SaveIndexPerformanceInsert(ok)
    \/ DbReturn

SpecIndex == InitIndex /\ [][NextIndex]_vars

\* Requests of two callers over MaxClock seconds: tasks of a batch in
\* get_daily_data, and callers of a provider's _make_request.
NextRateLimit ==
    \/ \E c \in Callers : GetDailyDataSleep(c)
    \/ \E c \in Callers : GetDailyDataRequest(c)
    \/ \E c \in Callers : MakeRequestStart(c)
    \/ \E c \in Callers : MakeRequestWake(c)
    \/ \E c \in Callers : MakeRequestDone(c)
    \/ Tick

SpecRateLimit == Init /\ [][NextRateLimit]_vars

\* Calls of _get_market_cap_with_retry, one after the other.  The event loop
\* runs every ready coroutine, so a call that can take a step takes one.
NextRetry ==
    \/ GetMarketCapWithRetryStart
    \/ \E check \in CacheChecks : RetryEnter(check)
    \/ \E answer \in ProviderAnswers : FactoryGetMarketCap(answer)
    \/ RetrySleepOver
    \/ RetryReturn

SpecRetry == Init /\ [][NextRetry]_vars /\ WF_vars(NextRetry)

\* Calls of _get_market_cap_yahoo with every response of YahooResponses.
NextYahoo ==
    \/ \E crumb \in BOOLEAN : GetMarketCapYahooStart(crumb)
    \/ \E resp \in YahooResponses : YahooApproach(resp)
    \/ YahooReturn

SpecYahoo == Init /\ [][NextYahoo]_vars

\* Calls of get_daily_data for two symbols, every date range over
\* 1..MaxDate and every series of at most MaxRaw entries.
NextSeries ==
    \/ \E symbol \in {"AAPL", "MSFT"}, start_date, end_date \in 1..MaxDate :
          GetDailyDataSeriesStart(symbol, start_date, end_date)
    \/ \E entries \in SeqsUpTo(SeriesEntries, MaxRaw) :
          SeriesProviderAnswers(entries)
    \/ SeriesReturn

SpecSeries == Init /\ [][NextSeries]_vars

\* get_market_cap calls for one symbol and universe selections over a
\* reference list that holds that symbol, by one DataFetcher.
NextReadThrough ==
    \/ \E s \in Symbols : run.pc = "idle" /\ GetMarketCapStart(s)
    \/ \E resp \in RankCapResponses(AlphaVantageCapResponses) :
           McAlphaVantage(resp)
    \/ \E resp \in RankCapResponses(YahooCapResponses) : McYahoo(resp)
    \/ \E outcome \in SaveOutcomes : McStore(outcome)
    \/ Return
    \/ FetchSymbolsStart
    \/ \E outcome \in SaveOutcomes : ReferenceFailed(outcome)
    \/ ReferenceFetched(<<"A", "B">>)
    \/ StartBatch
    \/ \E i \in 1..Stage1BatchSize, resp \in RankCapResponses(YahooCapResponses) :
           TaskYahoo(i, resp)
    \/ \E i \in 1..Stage1BatchSize, resp \in RankCapResponses(AlphaVantageCapResponses) :
           TaskAlphaVantage(i, resp)
    \/ CollectBatch
    \/ \E outcome \in SaveOutcomes : RankAndSelect(outcome)
    \/ ReturnSymbols

SpecReadThrough == Init /\ [][NextReadThrough]_vars

\* Universe selections and then one fetch cycle, by a DataFetcher whose
\* batch_size is set through configure_settings.
NextBatching ==
    \/ \E n \in 1..BatchSize :
          /\ run.pc = "idle"
          /\ batch.pc = "idle"
          /\ ConfigureBatchSize(n)
    \/ batch.pc = "idle" /\ FetchSymbolsStart
    \/ \E outcome \in {"written"} : ReferenceFailed(outcome)
    \/ ReferenceFetched(<<"A", "B", "C">>)
    \/ StartBatch
    \/ \E i \in 1..Stage1BatchSize, resp \in UniverseCapResponses(YahooCapResponses) :
           TaskYahoo(i, resp)
    \/ \E i \in 1..Stage1BatchSize, resp \in UniverseCapResponses(AlphaVantageCapResponses) :
           TaskAlphaVantage(i, resp)
    \/ CollectBatch
    \/ \E outcome \in {"written"} : RankAndSelect(outcome)
    \/ ReturnSymbols
    \/ \E symbols \in BatchUniverses :
          /\ run.pc = "idle"
          /\ batch.pc = "idle"
          /\ FetchAllDataStart(symbols)
    \/ StartProcessBatch
    \/ \E i \in 1..BatchSize, resp \in {"data", "empty"} : ProcessDaily(i, resp)
    \/ \E i \in 1..BatchSize, resp \in BatchCapResponses(AlphaVantageCapResponses) :
           ProcessAlphaVantage(i, resp, "written")
    \/ \E i \in 1..BatchSize, resp \in BatchCapResponses(YahooCapResponses) :
           ProcessYahoo(i, resp, "written")
    \/ CollectProcessBatch

SpecBatching == Init /\ [][NextBatching]_vars

\* The Database of the earlier version: market data is inserted a date at a
\* time, the index is built over a range, and the composition of a date is
\* read after a build.
BuildRanges == {<<1, 1>>, <<1, 2>>, <<2, 2>>}

NextBackupDb ==
    \/ \E d \in BackupDates :
          \E data \in BackupDayData(d) : BackupInsertMarketData(data)
    \/ \E range \in BuildRanges : BuildIndex(range[1], range[2])
    \/ \E d \in BackupDates : GetComposition(d)
    \/ BackupReturn

SpecBackupDb == Init /\ [][NextBackupDb]_vars

\* Universe selections over reference lists that name a symbol twice, while
\* configure_settings may be called between any two steps of a selection
\* with any integer: neither it nor POST /config/data-fetcher checks the value.
RepeatingLists == {<<"A", "A", "B">>, <<"B", "A">>}
AnySetting == (0 - 1)..MaxSymbolsSetting

NextRepeats ==
    \/ \E n \in AnySetting : run.pc # "done" /\ ConfigureSettings(n)
    \/ FetchSymbolsStart
    \/ ReferenceFailed("written")
    \/ \E all_symbols \in RepeatingLists : ReferenceFetched(all_symbols)
    \/ StartBatch
    \/ \E i \in 1..Stage1BatchSize, resp \in RankCapResponses(YahooCapResponses) :
           TaskYahoo(i, resp)
    \/ \E i \in 1..Stage1BatchSize, resp \in RankCapResponses(AlphaVantageCapResponses) :
           TaskAlphaVantage(i, resp)
    \/ CollectBatch
    \/ RankAndSelect("written")
    \/ ReturnSymbols

SpecRepeats == Init /\ [][NextRepeats]_vars

\* One process between two restarts, the clock standing still: max_symbols is
\* set before the first universe is cached and left alone from then on.
NextRefetch ==
    \/ \E n \in 1..MaxSymbolsSetting :
           /\ run.pc = "idle"
           /\ DOMAIN universe_cache = {}
           /\ ConfigureSettings(n)
    \/ FetchSymbolsStart
    \/ ReferenceFailed("written")
    \/ \E all_symbols \in ReferenceLists : ReferenceFetched(all_symbols)
    \/ StartBatch
    \/ \E i \in 1..Stage1BatchSize, resp \in RankCapResponses(YahooCapResponses) :
           TaskYahoo(i, resp)
    \/ \E i \in 1..Stage1BatchSize, resp \in RankCapResponses(AlphaVantageCapResponses) :
           TaskAlphaVantage(i, resp)
    \/ CollectBatch
    \/ RankAndSelect("written")
    \/ ReturnSymbols

SpecRefetch == Init /\ [][NextRefetch]_vars

\* The endpoints over a database that holds no market data, or market data of
\* symbol A for every date but the last; Redis was reachable when the service
\* started, or it was not.  A request names a range with data, a range whose
\* end is before its start, the date without data, or a start_date that is
\* not a date.
ApiRanges == {<<1, 2>>, <<2, 1>>, <<MaxDate, MaxDate>>, <<0, 1>>}

ApiMarketData ==
    {{}, TableOf([d \in IndexDates |->
                     IF d < MaxDate
                     THEN {[symbol |-> "A", price |-> 100 + 10 * (d - 1),
                            market_cap |-> 1]}
                     ELSE {}])}

InitApi ==
    /\ now = 0
    /\ ticks = 0
    /\ market_cap_cache = EmptyDict
    /\ market_cap_file = NoFile
    /\ universe_cache = EmptyDict
    /\ universe_file = NoFile
    /\ max_symbols = DefaultMaxSymbols
    /\ call = IdleCall
    /\ run = IdleRun
    /\ batch = IdleBatch
    /\ fetched_data = <<>>
    /\ merged_data = <<>>
    /\ market_data \in ApiMarketData
    /\ index_performance = {}
    /\ performance = <<>>
    /\ db = IdleDb
    /\ cycle = IdleCycle
    /\ limiter = IdleLimiter
    /\ retry = IdleRetry
    /\ yahoo = IdleYahoo
    /\ series = IdleSeries
    /\ batch_size = BatchSize
    /\ api \in {[IdleApi EXCEPT !.redis_available = available] :
                   available \in BOOLEAN}
    /\ backup_db = EmptyBackupDb

NextApi ==
    \/ \E range \in ApiRanges, force_refresh \in BOOLEAN :
           ApiFetchData(range[1], range[2], force_refresh)
    \/ \E range \in ApiRanges, force_rebuild \in BOOLEAN :
           ApiBuildIndex(range[1], range[2], force_rebuild)
    \/ \E range \in ApiRanges, force_recalculate \in BOOLEAN :
           /\ ValidDate(range[1])
           /\ ApiGetIndexPerformance(range[1], range[2], force_recalculate)

SpecApi == InitApi /\ [][NextApi]_vars

(***************************************************************************)
(* The claims.                                                             *)
(***************************************************************************)
Last(seq) == seq[Len(seq)]

\* C1: in one get_daily_data or get_market_cap call, only the last provider
\* contacted so far can have yielded data; once a provider yields data no
\* further provider is contacted, and the call returns exactly that data.
C1_ShortCircuit ==
    /\ \A i \in 1..(Len(call.trace) - 1) : ~call.trace[i].data
    /\ (call.trace # <<>> /\ Last(call.trace).data) =>
          /\ call.pc \in {"mc_store", "done"}
          /\ (call.pc = "done" /\ call.op = "get_daily_data") =>
                call.rows = Rows(Last(call.trace).provider, call.symbol)
          /\ (call.pc = "done" /\ call.op = "get_market_cap") =>
                call.cap_result = Last(call.trace).value

\* Yahoo answered the daily series after Alpha Vantage had none: the call is
\* over with two providers contacted.
C1_Witness ==
    /\ call.op = "get_daily_data"
    /\ call.pc = "done"
    /\ Len(call.trace) = 2
    /\ call.trace[2].data
    /\ call.rows # <<>>

AllProvidersFailed ==
    /\ call.pc = "done"
    /\ \/ /\ call.op = "get_daily_data"
          /\ Len(call.trace) = 5
          /\ \A i \in 1..5 : ~call.trace[i].data
       \/ /\ call.op = "get_market_cap"
          /\ Len(call.trace) = 2
          /\ \A i \in 1..2 : call.trace[i].value = None

Position(seq, x) == CHOOSE i \in 1..Len(seq) : seq[i] = x

Succeeded == {s \in DOMAIN run.looked : run.looked[s] # None}

\* The selection of this run ranked at least one symbol of a reference list.
Ranked ==
    /\ run.pc = "done"
    /\ run.reference = "fetched"
    /\ run.market_cap_data # <<>>

\* C4: every symbol of a universe built by the market-cap selection from a
\* fetched reference list had a successful, positive lookup in that run.
C4_FailedExcluded ==
    (run.pc = "done" /\ run.reference = "fetched" /\ run.served = "selection")
    => \A i \in 1..Len(run.result) :
          /\ run.result[i] \in DOMAIN run.looked
          /\ run.looked[run.result[i]] # None
          /\ run.looked[run.result[i]] > 0

\* C5: the ranked list holds exactly the symbols whose lookup succeeded, by
\* descending cap, equal caps in reference-list order, and the final universe
\* is its head, however the lookups of a batch completed; so the universe is
\* determined by the reference list, the caps and max_symbols.
C5_RankingDeterministic ==
    Ranked =>
        LET ranked == run.candidate_symbols IN
        /\ {ranked[i] : i \in 1..Len(ranked)} = Succeeded
        /\ Len(ranked) = Cardinality(Succeeded)
        /\ \A i, j \in 1..Len(ranked) :
              i < j =>
                 \/ run.looked[ranked[i]] > run.looked[ranked[j]]
                 \/ /\ run.looked[ranked[i]] = run.looked[ranked[j]]
                    /\ Position(run.all_symbols, ranked[i])
                          < Position(run.all_symbols, ranked[j])
        /\ run.result = Take(ranked, max_symbols)

\* Two symbols with equal caps were ranked, over the reference list C, B, A,
\* after a batch whose lookups completed out of order.
C5_Witness ==
    /\ Ranked
    /\ run.out_of_order
    /\ run.all_symbols = <<"C", "B", "A">>
    /\ \E i, j \in 1..Len(run.candidate_symbols) :
          /\ i < j
          /\ run.looked[run.candidate_symbols[i]]
                = run.looked[run.candidate_symbols[j]]
    /\ \E i, j \in 1..Len(run.candidate_symbols) :
          run.looked[run.candidate_symbols[i]]
             > run.looked[run.candidate_symbols[j]]

\* C6: the universe selected from a non-empty reference list has
\* min(max_symbols, k) symbols, k the number of successful lookups, each of
\* them a symbol whose lookup succeeded.
C6_TopOfRanked ==
    (run.pc = "done" /\ run.reference = "fetched" /\ run.all_symbols # <<>>)
    => /\ Len(run.result) = Min(max_symbols, Cardinality(Succeeded))
       /\ \A i \in 1..Len(run.result) : run.result[i] \in Succeeded

\* C7: a get_market_cap call that finds an entry younger than 24 h returns
\* its value without contacting a provider; one that finds an entry older
\* than 24 h is a miss and goes to the providers.
C7_CacheFreshness ==
    (call.op = "get_market_cap" /\ call.age # None) =>
        /\ call.age <= MarketCapTTL - 1 =>
              /\ call.hit
              /\ call.pc = "done"
              /\ call.trace = <<>>
              /\ call.cap_result = market_cap_cache[call.symbol].market_cap
        /\ call.age >= MarketCapTTL + 1 =>
              /\ ~call.hit
              /\ call.pc = "mc_alpha_vantage" \/ call.trace # <<>>

\* An entry is served at the age of 23 h 59 min.
C7_Witness ==
    /\ call.op = "get_market_cap"
    /\ call.hit
    /\ call.age = MarketCapTTL - 1
    /\ call.cap_result \in Caps

\* C8: fetch_symbols serves the cached universe only while it is younger
\* than 7 days.
C8_UniverseAgeChecked ==
    run.served = "cache" => run.age < cache_duration

\* C9: an entry of the persisted market-cap snapshot stays in the cache of
\* the program, as it is or replaced by a newer one.
C9_NeverDeletedOnExpiry ==
    \A s \in DOMAIN market_cap_file.data :
        /\ s \in DOMAIN market_cap_cache
        /\ market_cap_cache[s].timestamp >= market_cap_file.data[s].timestamp

\* C10: a get_market_cap call that finds an expired entry and gets nothing
\* from any provider returns the expired value.
C10_StaleFallback ==
    (AllProvidersFailed /\ call.op = "get_market_cap" /\ call.stale # None)
    => call.cap_result = call.stale

\* C11: a _save_cache that was interrupted, or failed, leaves a file from
\* which _load_cache reads the complete previous snapshot or the complete new
\* one: right after get_market_cap stored an entry, whatever became of the
\* save, a load of the file gives one of the two.
C11_AtomicSave ==
    (/\ call.op = "get_market_cap"
     /\ call.pc = "done"
     /\ ~call.hit
     /\ Truthy(call.cap_result)
     /\ call.symbol \in DOMAIN market_cap_cache
     /\ market_cap_cache[call.symbol].timestamp = now)
    => LoadCache(market_cap_file) \in {call.previous, market_cap_cache}

\* C12: the stores of concurrent _process_symbol tasks do not interleave and
\* lose nothing: the cache holds, under every symbol stored so far, the cap
\* stored last; a task that stored its cap, or was served from the cache,
\* finds that value in the cache; and a save that was written holds the whole
\* cache.
C12_WritesSerialized ==
    /\ \A s \in DOMAIN batch.committed :
          /\ s \in DOMAIN market_cap_cache
          /\ market_cap_cache[s].market_cap = batch.committed[s]
    /\ \A i \in 1..Len(batch.tasks) :
          (batch.tasks[i].stored \/ batch.tasks[i].hit) =>
             /\ batch.tasks[i].symbol \in DOMAIN market_cap_cache
             /\ market_cap_cache[batch.tasks[i].symbol].market_cap
                   = batch.tasks[i].market_cap
    /\ batch.last_save = "written" => market_cap_file.data = market_cap_cache

\* Two tasks of one batch stored their caps, each having tested the cache
\* before the other stored; the last save was written.
C12_Witness ==
    /\ batch.pc = "gather"
    /\ batch.last_save = "written"
    /\ \E i, j \in 1..Len(batch.tasks) :
          /\ i # j
          /\ batch.tasks[i].stored
          /\ batch.tasks[j].stored
          /\ batch.tasks[j].symbol \notin DOMAIN batch.tasks[i].seen
          /\ batch.tasks[i].symbol \notin DOMAIN batch.tasks[j].seen

NoDuplicateKeys(rows) ==
    \A i, j \in 1..Len(rows) : i < j => Key(rows[i]) # Key(rows[j])

\* C13: the output of merge_data_sources has at most one record per
\* (date, symbol), and every key of the input is a key of the output.
C13_OnePerKey ==
    cycle.passes >= 1 =>
        /\ NoDuplicateKeys(merged_data)
        /\ Keys(fetched_data) \subseteq Keys(merged_data)

\* Two observations of one key were merged into one record.
C13_Witness ==
    /\ cycle.passes = 1
    /\ Len(fetched_data) = 2
    /\ Len(merged_data) = 1

\* A record whose volume is above 10^12 while its market cap is below it.
Anomalous(row) == row.volume > OneTrillion /\ row.market_cap < OneTrillion

\* C14: no record with a volume above 10^12 and a far smaller market cap is
\* written to market_data.
C14_AnomalyDiscarded ==
    \A row \in market_data : ~Anomalous(row)

\* C15: of the raw records of one key the normalizer keeps one with the
\* largest market cap (the records name no provider, so priority is unknown),
\* whatever their order.
C15_PreferredKept ==
    cycle.passes = 1 =>
        \A i \in 1..Len(merged_data), j \in 1..Len(fetched_data) :
            Key(fetched_data[j]) = Key(merged_data[i]) =>
                Fillna(ToNumeric(fetched_data[j].market_cap))
                    <= merged_data[i].market_cap

\* C16: merge_data_sources applied to its own output returns the same set of
\* records, without two records of one key.
C16_MergeIdempotent ==
    cycle.passes = 2 =>
        /\ FrameRows(merged_data) = FrameRows(fetched_data)
        /\ Len(merged_data) = Len(fetched_data)
        /\ NoDuplicateKeys(merged_data)

\* The output of a merge that coerced a market cap to 0 was merged again.
C16_Witness ==
    /\ cycle.passes = 2
    /\ Len(merged_data) = 2
    /\ \E i \in 1..Len(merged_data) : merged_data[i].market_cap = 0

\* C17: an insert_market_data that succeeded replaced the rows whose key is
\* in the batch and left every other row as it was.
C17_OverwriteByKey ==
    (db.op = "insert_market_data" /\ db.pc = "done" /\ ~db.error) =>
        market_data = {row \in db.before : Key(row) \notin Keys(db.df)}
                         \cup FrameRows(db.df)

\* C18: an insert_market_data that failed, or was ended, after its DELETE
\* leaves market_data as it was before the call.
C18_AtomicCommit ==
    (db.op = "insert_market_data" /\ db.pc = "done" /\ db.error) =>
        market_data = db.before

RECURSIVE Compounded(_, _)
Compounded(rows, i) ==
    IF i = 0 THEN One
    ELSE Times(Compounded(rows, i - 1), Plus(One, rows[i].daily_return))

\* C19: the cumulative return of each row is the product of (1 + daily
\* return) over the rows up to it, minus 1, and 0 in the first row.
C19_CumulativeCompounded ==
    (db.op = "calculate_index_performance" /\ db.pc = "done") =>
        \A i \in 1..Len(performance) :
            performance[i].cumulative_return =
                IF i = 1 THEN Zero
                ELSE Minus(Compounded(performance, i), One)

\* The dates of the range that have a qualifying observation, and the
\* weighted price of such a date.
IncludedDates ==
    {d \in db.start_date..db.end_date :
        \E row \in market_data :
            row.date = d /\ row.market_cap > 0 /\ row.price > 0}

WeightedPrice(d) ==
    LET rows == {row \in market_data :
                    row.date = d /\ row.market_cap > 0 /\ row.price > 0}
    IN Frac(SumPriceMarketCap(rows), SumMarketCap(rows))

\* C20: the result has one row per included date; the daily return is 0 on
\* the first included date and where the previous weighted price is 0, and
\* otherwise the weighted price over that of the previous included date,
\* minus 1.
C20_DailyReturn ==
    (db.op = "calculate_index_performance" /\ db.pc = "done") =>
        /\ Len(performance) = Cardinality(IncludedDates)
        /\ \A i \in 1..Len(performance) :
              LET d == performance[i].date
                  earlier == {e \in IncludedDates : e < d}
              IN /\ d \in IncludedDates
                 /\ performance[i].daily_return =
                       IF earlier = {} THEN Zero
                       ELSE LET previous ==
                                    CHOOSE e \in earlier :
                                        \A f \in earlier : f <= e
                            IN IF WeightedPrice(previous) = Zero THEN Zero
                               ELSE Minus(Over(WeightedPrice(d),
                                               WeightedPrice(previous)), One)

\* Dates 1 and 3 are included and date 2, whose only row has no market cap,
\* is not; the return of date 3 is taken over date 1 and is not 0.
C20_Witness ==
    /\ db.op = "calculate_index_performance"
    /\ db.pc = "done"
    /\ IncludedDates = {1, 3}
    /\ \E row \in market_data : row.date = 2
    /\ Len(performance) = 2
    /\ performance[2].daily_return # Zero

\* C21: the result of calculate_index_performance has a row for a date of
\* the requested range exactly when a stored observation of that date has
\* market_cap > 0 and price > 0; the total of a row sums the qualifying
\* observations only, and the observations with market_cap = 0 change no
\* value of the result.
C21_QualifyingDatesOnly ==
    (db.op = "calculate_index_performance" /\ db.pc = "done") =>
        /\ {performance[i].date : i \in 1..Len(performance)} = IncludedDates
        /\ \A i \in 1..Len(performance) :
              performance[i].total_market_cap =
                  SumMarketCap({row \in market_data :
                                   /\ row.date = performance[i].date
                                   /\ row.market_cap > 0
                                   /\ row.price > 0})
        /\ performance =
              CalculateIndexPerformanceResult(
                  {row \in market_data : row.market_cap # 0},
                  db.start_date, db.end_date)

\* The range 1..MaxDate was asked for; date 2 has rows, none of them
\* qualifying (one without market cap or without price), and the result has
\* rows for the dates around it only.
C21_Witness ==
    /\ db.op = "calculate_index_performance"
    /\ db.pc = "done"
    /\ db.start_date = 1
    /\ \E row \in market_data : row.date = 2
    /\ \E row \in market_data : row.market_cap = 0
    /\ 2 \notin IncludedDates
    /\ Len(performance) = 2
    /\ performance[1].date = 1
    /\ performance[2].date = 3

\* C22: a universe snapshot built from the curated fallback list, or from a
\* reference list no symbol of which could be ranked, is not stored with
\* selection_method 'market_cap_based'.
C22_DegradedPathRecorded ==
    (/\ run.pc = "done"
     /\ run.served = "selection"
     /\ (run.reference = "failed" \/ run.market_cap_data = <<>>)) =>
        universe_cache.selection_method # "market_cap_based"

\* C23: the curated fallback list holds at least max_symbols symbols: when
\* the reference list could not be obtained, fetch_symbols is left with at
\* least max_symbols symbols.
C23_FallbackCoversPool ==
    (run.pc = "done" /\ run.reference = "failed") =>
        /\ Len(GetFallbackSymbols) >= max_symbols
        /\ Len(run.result) >= max_symbols

\* A fetch is over and complete: every symbol of the universe was processed,
\* in the order of the universe, and fetch_all_data returned what the tasks
\* collected.
CycleComplete ==
    /\ batch.pc = "done"
    /\ batch.processed = batch.symbols
    /\ fetched_data = batch.all_data

\* C24: a fetch_all_data that has started ends, whatever the providers
\* answer and whichever tasks raise, with every symbol of the universe
\* processed; the failure of a symbol ends neither its batch nor the fetch.
C24_CycleCompletes == (batch.pc = "batch") ~> CycleComplete

\* The fetch of B, A, C is over: the task of B raised, and the rows of A (same
\* batch) and of C (the batch after) were returned.
C24_Witness ==
    /\ CycleComplete
    /\ batch.symbols = <<"B", "A", "C">>
    /\ batch.raised = {"B"}
    /\ {fetched_data[i].symbol : i \in 1..Len(fetched_data)} = {"A", "C"}

\* The spacing owed to an endpoint.
MinSpacing(endpoint) ==
    IF endpoint = "provider_url" THEN min_interval ELSE rate_limit_delay

\* Any two requests sent one after the other to `endpoint` are at least its
\* minimum spacing apart.
Spaced(endpoint) ==
    \A i \in 2..Len(limiter.issued[endpoint]) :
        limiter.issued[endpoint][i] - limiter.issued[endpoint][i - 1]
            >= MinSpacing(endpoint)

\* C25: per endpoint, consecutive requests are at least the minimum spacing
\* apart (60 / requests_per_minute seconds behind _wait_for_rate_limit,
\* rate_limit_delay seconds for Alpha Vantage), also when they come from
\* concurrent tasks.
C25_MinSpacing == \A endpoint \in Endpoints : Spaced(endpoint)

\* C26: every delay slept before a retry equals base_delay * 2^attempt, with
\* attempt counted from 0, on the path after a failed lookup and on the path
\* through the except clause.
C26_ExponentialBackoff ==
    \A i \in 1..Len(retry.delays) :
        retry.delays[i].delay = base_delay * Pow(2, retry.delays[i].attempt)

\* C27: one call of _get_market_cap_with_retry sleeps for at most max_retries
\* retries, its attempt counter never exceeds max_retries, no retry is
\* scheduled once the counter is at max_retries, and every call ends.
C27_RetryCeiling ==
    /\ [](/\ retry.attempt <= max_retries
          /\ Len(retry.delays) <= max_retries
          /\ (retry.pc = "sleep" => retry.attempt < max_retries))
    /\ (retry.pc = "enter") ~> (retry.pc = "done")

\* The call that used every retry and ended with no data.
C27_Witness ==
    /\ retry.pc = "done"
    /\ retry.result = None
    /\ retry.attempt = max_retries
    /\ Len(retry.delays) = max_retries

\* C28: within one call no provider is invoked twice: not in the chain of
\* get_daily_data or get_market_cap, and not in one call of
\* _get_market_cap_with_retry.
C28_ProviderInvokedOnce ==
    /\ \A i, j \in 1..Len(call.trace) :
          call.trace[i].provider = call.trace[j].provider => i = j
    /\ \A i, j \in 1..Len(retry.invoked) :
          retry.invoked[i] = retry.invoked[j] => i = j

\* C29: a market cap that _get_market_cap_yahoo returns as a success lies in
\* [MinMarketCap, MaxMarketCap], whichever strategy extracted it.
C29_YahooCapRealistic ==
    (yahoo.pc = "done" /\ Truthy(yahoo.result)) => Realistic(yahoo.result)

\* C30: every observation that get_daily_data returns, from whichever
\* provider of the chain, has a date within [start_date, end_date] and the
\* symbol that was asked for.
C30_RowsInRange ==
    series.pc = "done" =>
        \A i \in 1..Len(series.result) :
            /\ series.start_date <= series.result[i].date
            /\ series.result[i].date <= series.end_date
            /\ series.result[i].symbol = series.symbol

\* Polygon answered after Alpha Vantage and Yahoo gave nothing, and an entry
\* outside the range was left out of the rows returned.
C30_Witness ==
    /\ series.pc = "done"
    /\ DailyPriority[series.provider] = "polygon"
    /\ series.result # <<>>
    /\ Len(series.result) < Len(series.entries)

\* The step in which task i of the Stage-1 batch sends its first request.
FirstRequest(i) ==
    /\ run.pc = "gather" /\ run'.pc = "gather"
    /\ i \in 1..Len(run.tasks)
    /\ run.tasks[i].pc = "yahoo"
    /\ run'.tasks[i].pc # "yahoo"

\* C31: the market-cap cache is read-through in Stage 1 too: no task sends a
\* request for a symbol whose cached market cap is fresh, and a cap that a
\* task fetched is in the cache, fresh for a later get_market_cap.
C31_ReadThroughRanking ==
    /\ [][\A i \in 1..Stage1BatchSize :
              FirstRequest(i) => ~CacheFresh(run.tasks[i].symbol)]_vars
    /\ [](\A s \in DOMAIN run.looked :
              run.looked[s] # None =>
                  CacheFresh(s) /\ market_cap_cache[s].market_cap = run.looked[s])

\* C35: every market-cap lookup tries the providers in one order: when a
\* Stage-1 task has gone from its first provider to Alpha Vantage, and a
\* get_market_cap call has tried two providers, the call tried them in the
\* order of the task.
C35_OnePriorityOrder ==
    \A i \in 1..Len(run.tasks) :
        (/\ run.tasks[i].pc = "alpha_vantage"
         /\ call.op = "get_market_cap"
         /\ Len(call.trace) = 2) =>
            /\ call.trace[1].provider = "yahoo"
            /\ call.trace[2].provider = "alpha_vantage"

\* The lookups of a batch that have not ended.
InFlight(tasks) == Cardinality({i \in 1..Len(tasks) : tasks[i].pc # "done"})

\* C32: at every moment at most batch_size lookups are in flight, in the
\* Stage-1 market-cap evaluation and in the fetch cycle.
C32_BoundedBatches ==
    /\ InFlight(run.tasks) <= batch_size
    /\ InFlight(batch.tasks) <= batch_size

\* The dates of the range of the last build_index call that have market data.
BuiltDates ==
    DatesBetween(backup_db.market_data, backup_db.range[1], backup_db.range[2])

RECURSIVE WeightSum(_)
WeightSum(constituents) ==
    IF constituents = {} THEN Zero
    ELSE LET ic == CHOOSE c \in constituents : TRUE
         IN Plus(ic.weight, WeightSum(constituents \ {ic}))

\* The market_cap market_data holds for a constituent.
CapOf(ic) ==
    (CHOOSE row \in backup_db.market_data : Key(row) = Key(ic)).market_cap

C40_Rerunnable ==
    (backup_db.pc = "built" /\ backup_db.rerun) =>
        /\ backup_db.outcome = "ok"
        /\ backup_db.index_constituents = backup_db.before.index_constituents
        /\ backup_db.index_performance = backup_db.before.index_performance

\* C34: fetch_symbols returns at least one symbol (max_symbols being at least
\* 1), whether the universe cache is empty or filled, whether the reference
\* list was fetched, came empty or could not be fetched, and whether the
\* market-cap lookups succeeded or failed.
C34_NeverEmpty ==
    run.pc = "done" => Len(run.result) >= 1

\* The universe cache was empty and the reference list came empty: the head
\* of the curated list was returned.
C34_Witness ==
    /\ run.pc = "done"
    /\ run.reference = "fetched"
    /\ run.all_symbols = <<>>
    /\ run.served = "fallback"
    /\ run.result = Take(CuratedSymbols, max_symbols)

\* The number of times `s` occurs in `seq`.
Count(seq, s) == Cardinality({i \in 1..Len(seq) : seq[i] = s})

\* The list fetch_symbols cuts its result from.
SourceList ==
    IF run.served = "cache" THEN universe_cache.symbols
    ELSE IF run.served = "fallback" \/ run.reference = "failed"
         THEN CuratedSymbols
         ELSE run.all_symbols

\* C37: on every path, and whatever configure_settings set before or during the
\* call, fetch_symbols returns at most max_symbols symbols, and no symbol more
\* often than the list it was cut from names it.
C37_AtMostMaxSymbols ==
    run.pc = "done" =>
        /\ Len(run.result) <= max_symbols
        /\ \A i \in 1..Len(run.result) :
              Count(run.result, run.result[i])
                  <= Count(SourceList, run.result[i])

\* C36: once fetch_symbols has built and cached a universe, a later call under
\* the same settings and inside the freshness window fetches no reference list
\* and asks no provider, and returns the cached list as it is, also when the
\* cached universe is shorter than max_symbols.
C36_SecondCallFromCache ==
    DOMAIN universe_cache # {} =>
        /\ run.pc \in {"idle", "done"}
        /\ run.pc = "done" => run.result = universe_cache.symbols

\* C38: an HTTP error that an endpoint raises on purpose reaches the client
\* with its own status code: /data/fetch and /index/build answer 400 to a
\* start_date after the end_date and add no background task, and
\* /index/performance answers 404 for a range without market data.
C38_OwnStatusCode ==
    /\ (/\ api.endpoint \in {"fetch_data", "build_index"}
        /\ ValidDate(api.start_date)
        /\ ValidDate(api.end_date)
        /\ api.start_date > api.end_date)
           => (api.status_code = 400 /\ ~api.task_added)
    /\ (/\ api.endpoint = "get_index_performance"
        /\ GetMarketData(market_data, api.start_date, api.end_date) = {})
           => api.status_code = 404

\* C39: GET /index/performance with force_recalculate = true, over a range
\* that has market data, reads no cache, replaces the stored rows of the range
\* by the recomputed ones and answers 200 with the recomputed series, with
\* Redis and without.
C39_ForceRecalculate ==
    (/\ api.endpoint = "get_index_performance"
     /\ api.force
     /\ CalculateIndexPerformanceResult(market_data, api.start_date,
                                        api.end_date) # <<>>)
        => /\ ~api.cache_read
           /\ GetIndexPerformance(index_performance, api.start_date,
                                  api.end_date)
                  = CalculateIndexPerformanceResult(market_data,
                                                    api.start_date,
                                                    api.end_date)
           /\ api.status_code = 200
           /\ api.body = CalculateIndexPerformanceResult(market_data,
                                                         api.start_date,
                                                         api.end_date)

====
